---- MODULE Spec2Model ----
(***************************************************************************)
(* Hybrid MPI + OpenMP matrix kernels of src/src/matrix_operations_mpi.cpp *)
(* as a state machine: main() run by `size` processes, each with its own   *)
(* memory; point-to-point messages and collectives between them.           *)
(*                                                                         *)
(* Matrices are flat row-major arrays (functions over 0..n*n-1), exactly   *)
(* as the code indexes them (matrix[i * n + j]).  A double is modelled by  *)
(* an exact rational <<numerator, denominator>> in lowest terms.           *)
(***************************************************************************)
EXTENDS Integers, Sequences, FiniteSets, TLC

\* ------------------------------------------------------------------ bounds
\* MATRIX_SIZE (4096 in the source) ranges over 1..MaxN.
MaxN == 3
\* inv_size (512 in the source) ranges over 1..MaxInvN.
MaxInvN == 3
\* Number of MPI processes (given by the launcher) ranges over 1..MaxProcs.
MaxProcs == 3
\* time(NULL), the second in which the job starts, ranges over 0..MaxTime.
MaxTime == 1
\* matrix_multiply_mpi called with A = identity: n ranges over 1..MaxIdN.
MaxIdN == 4
\* Matrix dimensions (MATRIX_SIZE and inv_size) in the runs that explore
\* clock readings and files that cannot be opened: 1..MaxEnvN.
MaxEnvN == 2
\* Ticks of MPI_Wtime between two readings that the code takes one after the
\* other, and spent waiting in the merge and the barrier: 0..MaxGap.
MaxGap == 1
\* Number of MPI processes in the runs that explore clock readings and
\* files that cannot be opened: 1..MaxEnvProcs.
MaxEnvProcs == 2

VARIABLES
    size,        \* MPI_Comm_size
    n,           \* MATRIX_SIZE
    clock,       \* time(NULL): the processes start in the same second
    inv_size,    \* inv_size of main (0 until main reaches its declaration)
    pc,          \* pc[p]: position of process p in main
    rng,         \* rng[p]: state of the C library generator of process p
    A, B, C,     \* A[p], B[p], C[p]: the matrices of process p
    A_small,     \* A_small[p]: input of the inversion on process p
    A_inv,       \* A_inv[p]: A_small_inv of main / A_inv of matrix_inverse_mpi
    work,        \* work[p]: working copy inside matrix_inverse_mpi (after
                 \* delete[]: the content it had when it was freed)
    start_row,   \* start_row[p], end_row[p]: partition computed by p
    end_row,
    next_p,      \* loop variable p of the coordinator's receive loop
    col,         \* col[p]: pivot column of process p
    singular,    \* singular[p]: p took the "Matrix is singular!" return
    chan,        \* chan[p]: messages sent by p to rank 0, not yet received
    sends,       \* sends[p]: payload lengths of the MPI_Send calls of p
    recvs,       \* recvs[p]: <<offset, count>> of each MPI_Recv posted for p
    rounds,      \* rounds[p]: all-gather rounds p has completed
    console,     \* console[p]: lines printed by p
    perf_log,    \* records appended to results/performance_log.csv
    start_gap,   \* start_gap[p]: mult_start - start_time of mult_monitor, until
                 \* mult_comm is computed
    kernel_time, \* kernel_time[p]: ticks p spent in the local loop of
                 \* matrix_multiply_mpi
    mult_time,   \* mult_time[p], mult_comm[p]: the locals of main
    mult_comm,
    report,      \* blocks appended to results/bottleneck_analysis.txt
    parts,       \* data/matrix_C_part<rank>.dat: file name -> rows written
    writes,      \* <<rank, file>>: rank opened file for writing
    failed,      \* <<rank, file>>: rank could not open file
    pivotRow,    \* the locals pivot_row and pivot of matrix_inverse_mpi when
    pivotVal,    \* one pass of its column loop is followed step by step
    todo,        \* iterations of the current parallel loop not yet executed
    acc,         \* <<iteration, "r" or "w", array, index>>: the accesses of
                 \* the iterations of the current parallel loop
    before,      \* work and A_inv as they were when the current step began
    arrived      \* the ranks whose message of line 106 has been handed to
                 \* MPI, in the order in which this happened

timing == <<start_gap, kernel_time, mult_time, mult_comm>>
pass == <<pivotRow, pivotVal, todo, acc, before>>

files == <<report, parts, writes, failed>>

vars == <<size, n, clock, inv_size, pc, rng, A, B, C, A_small, A_inv, work,
          start_row, end_row, next_p, col, singular, chan, sends, recvs,
          rounds, console, perf_log, timing, files, pass, arrived>>

Procs == 0 .. (size - 1)

\* F applied to the value of its argument(s): the argument expressions are
\* evaluated once, like a C expression stored in a local variable, however
\* often F uses them.
With(v0, F(_)) == CHOOSE r \in {F(v) : v \in {v0}} : TRUE

With2(u0, v0, F(_, _)) == CHOOSE r \in {F(u, v) : u \in {u0}, v \in {v0}} : TRUE

\* --------------------------------------------------------------- rationals
Abs(x) == IF x < 0 THEN -x ELSE x

RECURSIVE Gcd(_, _)
Gcd(a, b) == IF b = 0 THEN a ELSE With(a % b, LAMBDA r : Gcd(b, r))

\* The rational a0/b0 (b0 # 0) in lowest terms with a positive denominator.
Rat(a0, b0) ==
    With2(a0, b0, LAMBDA a, b :
        With(Gcd(Abs(a), Abs(b)), LAMBDA g :
            IF b < 0 THEN <<(-a) \div g, (-b) \div g>>
            ELSE <<a \div g, b \div g>>))

Zero == <<0, 1>>
One == <<1, 1>>
\* Content of memory that was allocated and never written.
Uninit == <<0, 0>>

\* Arithmetic on rationals in lowest terms; common factors are removed before
\* the products are formed, so that intermediate values stay small.
RNeg(x0) == With(x0, LAMBDA x : <<-x[1], x[2]>>)

RSub(x0, y0) ==
    With2(x0, y0, LAMBDA x, y :
        With(Gcd(x[2], y[2]), LAMBDA g :
            With(x[1] * (y[2] \div g) - y[1] * (x[2] \div g), LAMBDA num :
                With(Gcd(Abs(num), g), LAMBDA h :
                    <<num \div h, (x[2] \div g) * (y[2] \div h)>>))))

RAdd(x, y) == RSub(x, RNeg(y))

RMul(x0, y0) ==
    With2(x0, y0, LAMBDA x, y :
        With2(Gcd(Abs(x[1]), y[2]), Gcd(Abs(y[1]), x[2]), LAMBDA g1, g2 :
            <<(x[1] \div g1) * (y[1] \div g2), (x[2] \div g2) * (y[2] \div g1)>>))

\* x / y for y # 0
RDiv(x, y0) ==
    With(y0, LAMBDA y :
        RMul(x, IF y[1] > 0 THEN <<y[2], y[1]>> ELSE <<-y[2], -y[1]>>))

\* fabs(x), and x > y
RAbs(x0) == With(x0, LAMBDA x : <<Abs(x[1]), x[2]>>)

RGt(x0, y0) ==
    With2(x0, y0, LAMBDA x, y :
        With(Gcd(x[2], y[2]), LAMBDA g :
            x[1] * (y[2] \div g) > y[1] * (x[2] \div g)))

\* fabs(pivot) < 1e-10, i.e. |num| * 10^10 < den, computed in two factors of
\* 10^5 so that every intermediate value stays a machine integer.
BelowThreshold(x0) ==
    With(x0, LAMBDA x : Abs(x[1]) * 100000 < (x[2] + 99999) \div 100000)

\* ------------------------------------------------------------ row partition
\* (variant: the quotient rounded up)
RowsPerProcCeil(nn, sz) == (nn + sz - 1) \div sz

RowsPerProc(nn, sz) == nn \div sz

StartRow(rank, sz, nn) == rank * RowsPerProc(nn, sz)

\* (variant: the last rank gets no remainder rows)
EndRowNoRemainder(rank, sz, nn) == StartRow(rank, sz, nn) + RowsPerProc(nn, sz)

EndRow(rank, sz, nn) ==
    IF rank = sz - 1 THEN nn ELSE StartRow(rank, sz, nn) + RowsPerProc(nn, sz)

\* (variant: the receive for rank p is stored one partition too low)
PStartBelow(p, sz, nn) == (p - 1) * RowsPerProc(nn, sz)

\* p_start, p_end and count of the coordinator's receive loop
PStart(p, sz, nn) == p * RowsPerProc(nn, sz)

\* (variant: the receive for the last rank is sized like the others)
PEndNoRemainder(p, sz, nn) == PStart(p, sz, nn) + RowsPerProc(nn, sz)

PEnd(p, sz, nn) ==
    IF p = sz - 1 THEN nn ELSE PStart(p, sz, nn) + RowsPerProc(nn, sz)

RecvCount(p, sz, nn) == (PEnd(p, sz, nn) - PStart(p, sz, nn)) * nn

SendCount(sr, er, nn) == (er - sr) * nn

\* ------------------------------------------------------- random generator
\* srand(seed) and rand(): a linear congruential generator of full period.
Srand(seed) == seed % 9

Rand(s) == (4 * s + 2) % 9

\* State of the generator after k calls of rand().
RECURSIVE RandSkip(_, _)
RandSkip(s, k) == IF k = 0 THEN s ELSE RandSkip(Rand(s), k - 1)

\* initialize_matrix: cell k receives (double)(rand() % 100) / 10.0 of the
\* (k+1)-th call.
InitializeMatrix(s, rows, cols) ==
    [k \in 0 .. (rows * cols - 1) |-> Rat(RandSkip(s, k + 1) % 100, 10)]

\* (variant: the ones are on the other diagonal)
InitializeIdentityAnti(sz) ==
    [k \in 0 .. (sz * sz - 1) |-> IF (k \div sz) + (k % sz) = sz - 1 THEN One ELSE Zero]

\* initialize_identity, lines 66-73.
InitializeIdentity(sz) ==
    [k \in 0 .. (sz * sz - 1) |-> IF k \div sz = k % sz THEN One ELSE Zero]

Unallocated(nn) == [k \in 0 .. (nn * nn - 1) |-> Uninit]

\* ---------------------------------------------------------- multiplication
\* sum += A[i*n+k] * B[k*n+j] for k = 0 .. n-1, in ascending k
RECURSIVE DotPrefix(_, _, _, _, _, _)
DotPrefix(a, b, i, j, nn, k) ==
    IF k = 0 THEN Zero
    ELSE RAdd(DotPrefix(a, b, i, j, nn, k - 1),
              RMul(a[i * nn + (k - 1)], b[(k - 1) * nn + j]))

\* (variant: B indexed by column first)
DotTransposed(a, b, i, j, nn) == DotPrefix(a, [k \in DOMAIN b |-> b[(k % nn) * nn + k \div nn]], i, j, nn, nn)

Dot(a, b, i, j, nn) == DotPrefix(a, b, i, j, nn, nn)

\* The local loop of matrix_multiply_mpi: rows sr..er-1 of c are computed,
\* every other cell of c keeps its content.
\* (variant: the loop over i runs over all rows)
MultiplyRowsAll(a, b, c, sr, er, nn) ==
    [k \in 0 .. (nn * nn - 1) |-> Dot(a, b, k \div nn, k % nn, nn)]

MultiplyRows(a, b, c, sr, er, nn) ==
    [k \in 0 .. (nn * nn - 1) |->
        IF sr <= k \div nn /\ k \div nn < er
        THEN Dot(a, b, k \div nn, k % nn, nn)
        ELSE c[k]]

\* The buffer handed to MPI_Send: count elements starting at &buf[off].
Payload(buf, off, count) == [k \in 1 .. count |-> buf[off + k - 1]]

\* MPI_Recv into &buf[off]: the message's elements are stored from off on.
Store(buf, off, msg) ==
    [k \in DOMAIN buf |->
        IF off <= k /\ k < off + Len(msg) THEN msg[k - off + 1] ELSE buf[k]]

\* ------------------------------------------------------------------- Init
\* No pass of the column loop is being followed step by step.
PassIdle ==
    /\ pivotRow = 0
    /\ pivotVal = Zero
    /\ todo = {}
    /\ acc = {}
    /\ before = [work |-> <<>>, A_inv |-> <<>>]

Init ==
    /\ size \in 1 .. MaxProcs
    /\ n \in 1 .. MaxN
    /\ clock \in 0 .. MaxTime
    /\ inv_size = 0
    /\ pc = [p \in Procs |-> "start"]
    /\ rng = [p \in Procs |-> 0]
    /\ A = [p \in Procs |-> Unallocated(n)]
    /\ B = [p \in Procs |-> Unallocated(n)]
    /\ C = [p \in Procs |-> Unallocated(n)]
    /\ A_small = [p \in Procs |-> Unallocated(inv_size)]
    /\ A_inv = [p \in Procs |-> Unallocated(inv_size)]
    /\ work = [p \in Procs |-> Unallocated(inv_size)]
    /\ start_row = [p \in Procs |-> 0]
    /\ end_row = [p \in Procs |-> 0]
    /\ next_p = 1
    /\ col = [p \in Procs |-> 0]
    /\ singular = [p \in Procs |-> FALSE]
    /\ chan = [p \in Procs |-> <<>>]
    /\ arrived = <<>>
    /\ sends = [p \in Procs |-> <<>>]
    /\ recvs = [p \in Procs |-> <<>>]
    /\ rounds = [p \in Procs |-> 0]
    /\ console = [p \in Procs |-> <<>>]
    /\ perf_log = <<>>
    /\ start_gap = [p \in Procs |-> 0]
    /\ kernel_time = [p \in Procs |-> 0]
    /\ mult_time = [p \in Procs |-> 0]
    /\ mult_comm = [p \in Procs |-> 0]
    /\ report = <<>>
    /\ parts = <<>>
    /\ writes = {}
    /\ failed = {}
    /\ PassIdle

\* main, lines 247-281: srand(time(NULL) + rank), allocation and
\* initialization of A and B, up to the first barrier.
Setup(p) ==
    /\ pc[p] = "start"
    /\ LET s0 == Srand(clock + p)
           s1 == RandSkip(s0, n * n)
       IN  /\ A' = [A EXCEPT ![p] = InitializeMatrix(s0, n, n)]
           /\ B' = [B EXCEPT ![p] = InitializeMatrix(s1, n, n)]
           /\ rng' = [rng EXCEPT ![p] = RandSkip(s1, n * n)]
    /\ pc' = [pc EXCEPT ![p] = "barrier_init"]
    /\ UNCHANGED <<size, n, clock, inv_size, C, A_small, A_inv, work, start_row,
                   end_row, next_p, col, singular, chan, sends, recvs,
                   rounds, console, perf_log,
                   timing, files,
                   pass, arrived>>

\* MPI_Barrier: nobody leaves before everybody has entered.
AllAt(label) == \A p \in Procs : pc[p] = label

BarrierInit ==
    /\ AllAt("barrier_init")
    /\ pc' = [p \in Procs |-> "multiply"]
    /\ UNCHANGED <<size, n, clock, inv_size, rng, A, B, C, A_small, A_inv, work,
                   start_row, end_row, next_p, col, singular, chan, sends,
                   recvs, rounds, console, perf_log,
                   timing, files,
                   pass, arrived>>

\* Ticks of the clock spent in the local loop over rows sr..er-1: the rows
\* cost the same, one tick each.
KernelTicks(sr, er) == er - sr

\* main, lines 288-291, and matrix_multiply_mpi, lines 79-93 and 105-108:
\* the monitor is started (its start_time is the origin of p's readings),
\* mult_start is read gap ticks later; then partition and local
\* computation; a non-coordinator then sends its rows.  A standard-mode send
\* returns at once when the library buffers the message and otherwise when
\* the matching receive has taken it ("sending").
MultiplyLocal(p, Gaps) ==
    /\ pc[p] = "multiply"
    /\ \E gap \in Gaps : start_gap' = [start_gap EXCEPT ![p] = gap]
    /\ kernel_time' = [kernel_time EXCEPT ![p] =
                         KernelTicks(StartRow(p, size, n), EndRow(p, size, n))]
    /\ \E sr \in {StartRow(p, size, n)}, er \in {EndRow(p, size, n)} :
       \E c \in {MultiplyRows(A[p], B[p], C[p], sr, er, n)},
          count \in {SendCount(sr, er, n)} :
           /\ start_row' = [start_row EXCEPT ![p] = sr]
           /\ end_row' = [end_row EXCEPT ![p] = er]
           /\ C' = [C EXCEPT ![p] = c]
           /\ IF p = 0
              THEN /\ pc' = [pc EXCEPT ![p] = "gather"]
                   /\ UNCHANGED <<chan, sends, arrived>>
              ELSE /\ chan' = [chan EXCEPT ![p] = Append(@, Payload(c, sr * n, count))]
                   /\ arrived' = Append(arrived, p)
                   /\ sends' = [sends EXCEPT ![p] = Append(@, count)]
                   /\ \E buffered \in BOOLEAN :
                        pc' = [pc EXCEPT ![p] =
                                 IF buffered THEN "barrier_mult" ELSE "sending"]
    /\ UNCHANGED <<size, n, clock, inv_size, rng, A, B, A_small, A_inv, work, next_p,
                   col, singular, recvs, rounds, console, perf_log, mult_time,
                   mult_comm, files,
                   pass>>

\* (variant: the receive for rank next_p is posted with MPI_ANY_SOURCE)
MultiplyRecvAnySource ==
    /\ pc[0] = "gather"
    /\ next_p < size
    /\ \E src \in Procs \ {0} :
        /\ chan[src] # <<>>
        /\ LET off == PStart(next_p, size, n) * n
               count == RecvCount(next_p, size, n)
               msg == Head(chan[src])
           IN  /\ recvs' = [recvs EXCEPT ![src] = Append(@, <<off, count>>)]
               /\ chan' = [chan EXCEPT ![src] = Tail(@)]
               /\ IF Len(msg) > count
                  THEN /\ pc' = [q \in Procs |-> "aborted"]
                       /\ UNCHANGED <<C, next_p>>
                  ELSE /\ C' = [C EXCEPT ![0] = Store(C[0], off, msg)]
                       /\ next_p' = next_p + 1
                       /\ pc' = [q \in Procs |->
                                   IF q = src /\ pc[q] = "sending"
                                   THEN "barrier_mult" ELSE pc[q]]
    /\ UNCHANGED <<size, n, clock, inv_size, rng, A, B, A_small, A_inv, work,
                   start_row, end_row, col, singular, sends, rounds, console,
                   perf_log, timing, files,
                   pass, arrived>>

\* matrix_multiply_mpi, lines 96-104: the coordinator's receive for rank
\* next_p.  A message longer than count is MPI_ERR_TRUNCATE, which is fatal
\* under the default error handler.
MultiplyRecv ==
    /\ pc[0] = "gather"
    /\ next_p < size
    /\ chan[next_p] # <<>>
    /\ LET p == next_p
           off == PStart(p, size, n) * n
           count == RecvCount(p, size, n)
           msg == Head(chan[p])
       IN  /\ recvs' = [recvs EXCEPT ![p] = Append(@, <<off, count>>)]
           /\ chan' = [chan EXCEPT ![p] = Tail(@)]
           /\ IF Len(msg) > count
              THEN /\ pc' = [q \in Procs |-> "aborted"]
                   /\ UNCHANGED <<C, next_p>>
              ELSE /\ C' = [C EXCEPT ![0] = Store(C[0], off, msg)]
                   /\ next_p' = p + 1
                   /\ pc' = [q \in Procs |->
                               IF q = p /\ pc[q] = "sending" THEN "barrier_mult"
                               ELSE pc[q]]
    /\ UNCHANGED <<size, n, clock, inv_size, rng, A, B, A_small, A_inv, work,
                   start_row, end_row, col, singular, sends, rounds, console,
                   perf_log,
                   timing, files,
                   pass, arrived>>

\* The receive loop ends: matrix_multiply_mpi returns on the coordinator.
MultiplyGathered ==
    /\ pc[0] = "gather"
    /\ next_p >= size
    /\ pc' = [pc EXCEPT ![0] = "barrier_mult"]
    /\ UNCHANGED <<size, n, clock, inv_size, rng, A, B, C, A_small, A_inv, work,
                   start_row, end_row, next_p, col, singular, chan, sends,
                   recvs, rounds, console, perf_log,
                   timing, files,
                   pass, arrived>>

\* The files of the run.
PerfLogFile == "results/performance_log.csv"

ReportFile == "results/bottleneck_analysis.txt"

PartFile == "data/matrix_C"

\* (variant: the log is opened without ios::app)
LogMetricsTruncate(log, rank, sz, operation_name, opened) ==
    IF rank = 0 /\ opened THEN <<<<operation_name, sz, n>>>> ELSE log

\* ResourceMonitor::log_metrics, lines 43-52: rank 0 opens the log for
\* appending and writes one record (elapsed_time is left out of the record);
\* a stream that could not be opened ignores the output.
LogMetrics(log, rank, sz, operation_name, opened) ==
    IF rank = 0 /\ opened THEN Append(log, <<operation_name, sz, n>>) ELSE log

\* ResourceMonitor::stop, lines 38-41, and mult_comm of main, line 295.
Stop(start_time, end_time) == end_time - start_time

MultComm(now, mult_start, time) == now - mult_start - time

\* (variant: every rank writes <filename>_part.dat)
PartFileNameNoRank(filename, rank) == filename \o "_part.dat"

\* save_matrix_distributed, lines 192-193: <filename>_part<rank>.dat
PartFileName(filename, rank) == filename \o "_part" \o ToString(rank) \o ".dat"

\* (variant: the partition file is created even when it cannot be opened)
SaveMatrixDistributedAlways(fs, matrix, nn, filename, rank, sz, opened) ==
    (PartFileName(filename, rank) :>
        [first |-> StartRow(rank, sz, nn),
         cells |-> IF opened
                   THEN Payload(matrix, StartRow(rank, sz, nn) * nn,
                                (EndRow(rank, sz, nn) - StartRow(rank, sz, nn)) * nn)
                   ELSE <<>>]) @@ fs

\* (variant: the rows are taken from the top of the matrix)
SaveMatrixDistributedFromTop(fs, matrix, nn, filename, rank, sz, opened) ==
    IF opened
    THEN (PartFileName(filename, rank) :>
            [first |-> StartRow(rank, sz, nn),
             cells |-> Payload(matrix, 0,
                               (EndRow(rank, sz, nn) - StartRow(rank, sz, nn)) * nn)])
         @@ fs
    ELSE fs

\* save_matrix_distributed, lines 186-202: the file is created or truncated
\* and rows start_row..end_row-1 of matrix are written to it; nothing happens
\* when it cannot be opened.
SaveMatrixDistributed(fs, matrix, nn, filename, rank, sz, opened) ==
    IF opened
    THEN (PartFileName(filename, rank) :>
            [first |-> StartRow(rank, sz, nn),
             cells |-> Payload(matrix, StartRow(rank, sz, nn) * nn,
                               (EndRow(rank, sz, nn) - StartRow(rank, sz, nn)) * nn)])
         @@ fs
    ELSE fs

\* The opens of one step, each with its rank, the file and the phase of main
\* it is made in: those that succeeded and those that failed.
Opened(rank, name, attempted, opened) ==
    IF attempted /\ opened THEN {<<rank, name, pc[rank]>>} ELSE {}

NotOpened(rank, name, attempted, opened) ==
    IF attempted /\ ~opened THEN {<<rank, name, pc[rank]>>} ELSE {}

\* main, lines 293-306, after the barrier that follows the multiplication:
\* the clock is read twice (wait ticks after the local loop ended, and gap
\* ticks later), the coordinator prints and logs, every process saves its
\* partition.
BarrierMult ==
    /\ AllAt("barrier_mult")
    /\ pc' = [p \in Procs |-> "log_mult"]
    /\ UNCHANGED <<size, n, clock, inv_size, rng, A, B, C, A_small, A_inv, work,
                   start_row, end_row, next_p, col, singular, chan, sends,
                   recvs, rounds, console, perf_log,
                   timing, files,
                   pass, arrived>>

AfterMultiply(p, Gaps, Opens) ==
    /\ pc[p] = "log_mult"
    /\ \E wait \in Gaps, gap \in Gaps :
       \E end_time \in {start_gap[p] + kernel_time[p] + wait} :
           /\ mult_time' = [mult_time EXCEPT ![p] = Stop(0, end_time)]
           /\ mult_comm' = [mult_comm EXCEPT ![p] =
                               MultComm(end_time + gap, start_gap[p],
                                        Stop(0, end_time))]
    /\ start_gap' = [start_gap EXCEPT ![p] = 0]
    /\ \E log_opened \in Opens, part_opened \in Opens :
           /\ IF p = 0
              THEN /\ console' = [console EXCEPT ![p] = Append(@, "Completed mult")]
                   /\ perf_log' = LogMetrics(perf_log, p, size,
                                             "Matrix_Multiplication", log_opened)
              ELSE UNCHANGED <<console, perf_log>>
           /\ parts' = SaveMatrixDistributed(parts, C[p], n, PartFile, p, size,
                                             part_opened)
           /\ writes' = writes \cup Opened(p, PerfLogFile, p = 0, log_opened)
                               \cup Opened(p, PartFileName(PartFile, p), TRUE,
                                           part_opened)
           /\ failed' = failed \cup NotOpened(p, PerfLogFile, p = 0, log_opened)
                               \cup NotOpened(p, PartFileName(PartFile, p), TRUE,
                                              part_opened)
    /\ pc' = [pc EXCEPT ![p] = "barrier_save"]
    /\ UNCHANGED <<size, n, clock, inv_size, rng, A, B, C, A_small, A_inv, work,
                   start_row, end_row, next_p, col, singular, chan, sends,
                   recvs, rounds, kernel_time, report,
                   pass, arrived>>

\* The barrier of line 306.  Every process then executes int inv_size = 512
\* (line 314); the model draws that one program-wide value here.
BarrierSave(InvSizes) ==
    /\ AllAt("barrier_save")
    /\ \E m \in InvSizes : inv_size' = m
    /\ pc' = [p \in Procs |-> "inverse"]
    /\ UNCHANGED <<size, n, clock, rng, A, B, C, A_small, A_inv, work, start_row,
                   end_row, next_p, col, singular, chan, sends, recvs, rounds,
                   console, perf_log,
                   timing, files,
                   pass, arrived>>

\* --------------------------------------------------------------- inversion
Cell(m, i, j, nn) == m[i * nn + j]

\* (variant: the comparison of line 132 is >=)
RECURSIVE PivotScanLast(_, _, _, _, _, _)
PivotScanLast(w, c, nn, i, pivot_row, max_val) ==
    IF i >= nn THEN pivot_row
    ELSE IF ~RGt(max_val, RAbs(Cell(w, i, c, nn)))
         THEN PivotScanLast(w, c, nn, i + 1, i, RAbs(Cell(w, i, c, nn)))
         ELSE PivotScanLast(w, c, nn, i + 1, pivot_row, max_val)

\* Lines 127-136: pivot_row after the scan of rows from+1 .. nn-1, given the
\* best row and magnitude found so far.
RECURSIVE PivotScan(_, _, _, _, _, _)
PivotScan(w, c, nn, i, pivot_row, max_val) ==
    IF i >= nn THEN pivot_row
    ELSE IF RGt(RAbs(Cell(w, i, c, nn)), max_val)
         THEN PivotScan(w, c, nn, i + 1, i, RAbs(Cell(w, i, c, nn)))
         ELSE PivotScan(w, c, nn, i + 1, pivot_row, max_val)

SelectPivot(w, c, nn) == PivotScan(w, c, nn, c + 1, c, RAbs(Cell(w, c, c, nn)))

\* (variant: row r1 receives row r2, row r2 is left as it was)
SwapRowsCopy(m, r1, pivot_row, nn) ==
    With(pivot_row, LAMBDA r2 :
        [k \in DOMAIN m |->
            IF k \div nn = r1 THEN m[r2 * nn + (k % nn)] ELSE m[k]])

\* Lines 139-144: rows r1 and r2 exchanged (nothing happens for r1 = r2).
SwapRows(m, r1, pivot_row, nn) ==
    With(pivot_row, LAMBDA r2 :
        IF r1 = r2 THEN m
        ELSE [k \in DOMAIN m |->
                IF k \div nn = r1 THEN m[r2 * nn + (k % nn)]
                ELSE IF k \div nn = r2 THEN m[r1 * nn + (k % nn)]
                ELSE m[k]])

\* (variant: the divisor is the diagonal element of the row being divided,
\* read anew for every j)
ScaleRowByDiagonal(m, c, pivot, nn) ==
    [k \in DOMAIN m |->
        IF k \div nn = c /\ k % nn <= c /\ ~BelowThreshold(m[c * nn + c])
        THEN RDiv(m[k], m[c * nn + c])
        ELSE m[k]]

\* Lines 154-158: row c divided by pivot.
ScaleRow(m, c, pivot, nn) ==
    [k \in DOMAIN m |-> IF k \div nn = c THEN RDiv(m[k], pivot) ELSE m[k]]

\* (variant: factor is read from work anew for every j, so that it is 0 once
\* column c of the row has been cleared)
EliminateRowsLateFactor(m, w, c, sr, er, nn) ==
    [k \in DOMAIN m |->
        IF sr <= k \div nn /\ k \div nn < er /\ k \div nn # c /\ k % nn <= c
        THEN RSub(m[k], RMul(Cell(w, k \div nn, c, nn), m[c * nn + (k % nn)]))
        ELSE m[k]]

\* Lines 164-173 for one matrix m (work or A_inv): row i of sr..er-1, i # c,
\* has factor * row c subtracted, factor = work[i*n+c] read before the row
\* is changed.
EliminateRows(m, w, c, sr, er, nn) ==
    [k \in DOMAIN m |->
        IF sr <= k \div nn /\ k \div nn < er /\ k \div nn # c
        THEN RSub(m[k], RMul(Cell(w, k \div nn, c, nn), m[c * nn + (k % nn)]))
        ELSE m[k]]

\* Lines 176-179: MPI_Allgather in place with recvcount elements per rank:
\* block r of every process's buffer becomes block r of rank r's buffer;
\* elements from sz * recvcount on are not transferred.
GatherCount(nn, sz) == nn * RowsPerProc(nn, sz)

\* (variant: nothing is transferred)
AllgatherNothing(bufs, q, sz, recvcount) == bufs[q]

Allgather(bufs, q, sz, recvcount) ==
    [k \in DOMAIN bufs[q] |->
        IF recvcount > 0 /\ k < sz * recvcount
        THEN bufs[k \div recvcount][k]
        ELSE bufs[q][k]]

\* main, lines 314-321, and matrix_inverse_mpi, lines 114-124.
InverseBegin(p) ==
    /\ pc[p] = "inverse"
    /\ \E m \in {InitializeMatrix(rng[p], inv_size, inv_size)} :
           /\ A_small' = [A_small EXCEPT ![p] = m]
           /\ work' = [work EXCEPT ![p] = m]
    /\ rng' = [rng EXCEPT ![p] = RandSkip(@, inv_size * inv_size)]
    /\ A_inv' = [A_inv EXCEPT ![p] = InitializeIdentity(inv_size)]
    /\ col' = [col EXCEPT ![p] = 0]
    /\ pc' = [pc EXCEPT ![p] = "column"]
    /\ UNCHANGED <<size, n, clock, inv_size, A, B, C, start_row, end_row, next_p,
                   singular, chan, sends, recvs, rounds, console, perf_log,
                   timing, files,
                   pass, arrived>>

\* Where p continues after the all-gathers of column col[p].
AfterColumn(p) == IF col[p] + 1 < inv_size THEN "column" ELSE "barrier_inv"

\* (variant: the singular test reports nothing and the loop carries on
\* with the column unscaled)
ColumnPassNoReturn(w0, a0, c, rank, sz, nn) ==
    With2(w0, a0, LAMBDA w, a :
        With2(SwapRows(w, c, SelectPivot(w, c, nn), nn),
              SwapRows(a, c, SelectPivot(w, c, nn), nn), LAMBDA w1, a1 :
            With(Cell(w1, c, c, nn), LAMBDA pivot :
                With2(IF BelowThreshold(pivot) THEN w1 ELSE ScaleRow(w1, c, pivot, nn),
                      IF BelowThreshold(pivot) THEN a1 ELSE ScaleRow(a1, c, pivot, nn),
                      LAMBDA w2, a2 :
                    [work |-> EliminateRows(w2, w2, c, StartRow(rank, sz, nn),
                                            EndRow(rank, sz, nn), nn),
                     A_inv |-> EliminateRows(a2, w2, c, StartRow(rank, sz, nn),
                                             EndRow(rank, sz, nn), nn),
                     singular |-> FALSE, col |-> c]))))

\* Lines 127-173 on process rank: one pass of the column loop for column c on
\* the matrices w0 (work) and a0 (A_inv), up to the all-gathers.  On the
\* singular return of lines 148-152 the matrices are as the swap left them.
ColumnPass(w0, a0, c, rank, sz, nn) ==
    With2(w0, a0, LAMBDA w, a :
        With2(SwapRows(w, c, SelectPivot(w, c, nn), nn),
              SwapRows(a, c, SelectPivot(w, c, nn), nn), LAMBDA w1, a1 :
            With(Cell(w1, c, c, nn), LAMBDA pivot :
                IF BelowThreshold(pivot)
                THEN [work |-> w1, A_inv |-> a1, singular |-> TRUE, col |-> c]
                ELSE With2(ScaleRow(w1, c, pivot, nn), ScaleRow(a1, c, pivot, nn),
                           LAMBDA w2, a2 :
                       [work |-> EliminateRows(w2, w2, c, StartRow(rank, sz, nn),
                                               EndRow(rank, sz, nn), nn),
                        A_inv |-> EliminateRows(a2, w2, c, StartRow(rank, sz, nn),
                                                EndRow(rank, sz, nn), nn),
                        singular |-> FALSE, col |-> c]))))

\* The column loop from column c through column last without waiting for
\* another process: it stops at the singular return (col is the column that
\* was being processed) or after column last (col is last + 1).
RECURSIVE ColumnLoop(_, _, _, _, _, _, _)
ColumnLoop(w, a, c, last, rank, sz, nn) ==
    With(ColumnPass(w, a, c, rank, sz, nn), LAMBDA r :
        IF r.singular THEN r
        ELSE IF c < last THEN ColumnLoop(r.work, r.A_inv, c + 1, last, rank, sz, nn)
        ELSE [r EXCEPT !.col = c + 1])

\* (variant: the column loop works on the caller's matrix, not on a copy)
InverseColumnInPlace(p) ==
    /\ pc[p] = "column"
    /\ \E blocking \in {GatherCount(inv_size, size) > 0} :
       \E last \in {IF blocking THEN col[p] ELSE inv_size - 1} :
       \E r \in {ColumnLoop(work[p], A_inv[p], col[p], last, p, size, inv_size)} :
           /\ work' = [work EXCEPT ![p] = r.work]
           /\ A_small' = [A_small EXCEPT ![p] = r.work]
           /\ A_inv' = [A_inv EXCEPT ![p] = r.A_inv]
           /\ singular' = [singular EXCEPT ![p] = r.singular]
           /\ console' = [console EXCEPT ![p] =
                            IF r.singular THEN Append(@, "Matrix is singular!") ELSE @]
           /\ IF r.singular \/ ~blocking
              THEN /\ col' = [col EXCEPT ![p] = r.col]
                   /\ rounds' = [rounds EXCEPT ![p] = @ + (r.col - col[p])]
                   /\ pc' = [pc EXCEPT ![p] = "barrier_inv"]
              ELSE /\ pc' = [pc EXCEPT ![p] = "allgather"]
                   /\ UNCHANGED <<col, rounds>>
    /\ UNCHANGED <<size, n, clock, inv_size, rng, A, B, C, start_row,
                   end_row, next_p, chan, sends, recvs, perf_log,
                   timing, files,
                   pass, arrived>>

\* matrix_inverse_mpi, lines 126-179, from the top of the column loop to the
\* next point where p waits for another process.  With recvcount > 0 that is
\* the all-gather of the current column.  An all-gather of zero elements per
\* rank (size > n) transfers nothing, and Open MPI and MPICH return from it
\* at once without waiting for anybody: the loop then runs to its end.
InverseColumn(p) ==
    /\ pc[p] = "column"
    /\ \E blocking \in {GatherCount(inv_size, size) > 0} :
       \E last \in {IF blocking THEN col[p] ELSE inv_size - 1} :
       \E r \in {ColumnLoop(work[p], A_inv[p], col[p], last, p, size, inv_size)} :
           /\ work' = [work EXCEPT ![p] = r.work]
           /\ A_inv' = [A_inv EXCEPT ![p] = r.A_inv]
           /\ singular' = [singular EXCEPT ![p] = r.singular]
           /\ console' = [console EXCEPT ![p] =
                            IF r.singular THEN Append(@, "Matrix is singular!") ELSE @]
           /\ IF r.singular \/ ~blocking
              THEN /\ col' = [col EXCEPT ![p] = r.col]
                   /\ rounds' = [rounds EXCEPT ![p] = @ + (r.col - col[p])]
                   /\ pc' = [pc EXCEPT ![p] = "barrier_inv"]
              ELSE /\ pc' = [pc EXCEPT ![p] = "allgather"]
                   /\ UNCHANGED <<col, rounds>>
    /\ UNCHANGED <<size, n, clock, inv_size, rng, A, B, C, A_small, start_row,
                   end_row, next_p, chan, sends, recvs, perf_log,
                   timing, files,
                   pass, arrived>>

\* Lines 176-179: both all-gathers (recvcount > 0), complete once every
\* process has entered them.
InverseAllgather ==
    /\ AllAt("allgather")
    /\ work' = [q \in Procs |-> Allgather(work, q, size, GatherCount(inv_size, size))]
    /\ A_inv' = [q \in Procs |-> Allgather(A_inv, q, size, GatherCount(inv_size, size))]
    /\ col' = [p \in Procs |-> col[p] + 1]
    /\ rounds' = [p \in Procs |-> rounds[p] + 1]
    /\ pc' = [p \in Procs |-> AfterColumn(p)]
    /\ UNCHANGED <<size, n, clock, inv_size, rng, A, B, C, A_small, start_row,
                   end_row, next_p, singular, chan, sends, recvs, console,
                   perf_log,
                   timing, files,
                   pass, arrived>>

\* main, lines 325-333: the barrier after the inversion, then the
\* coordinator prints and logs.
BarrierInv ==
    /\ AllAt("barrier_inv")
    /\ pc' = [p \in Procs |-> "log_inv"]
    /\ UNCHANGED <<size, n, clock, inv_size, rng, A, B, C, A_small, A_inv, work,
                   start_row, end_row, next_p, col, singular, chan, sends,
                   recvs, rounds, console, perf_log,
                   timing, files,
                   pass, arrived>>

AfterInverse(p, Opens) ==
    /\ pc[p] = "log_inv"
    /\ \E log_opened \in Opens :
           /\ IF p = 0
              THEN /\ console' = [console EXCEPT ![p] = Append(@, "Completed inv")]
                   /\ perf_log' = LogMetrics(perf_log, p, size, "Matrix_Inversion",
                                             log_opened)
              ELSE UNCHANGED <<console, perf_log>>
           /\ writes' = writes \cup Opened(p, PerfLogFile, p = 0, log_opened)
           /\ failed' = failed \cup NotOpened(p, PerfLogFile, p = 0, log_opened)
    /\ pc' = [pc EXCEPT ![p] = "analyze"]
    /\ UNCHANGED <<size, n, clock, inv_size, rng, A, B, C, A_small, A_inv, work,
                   start_row, end_row, next_p, col, singular, chan, sends,
                   recvs, rounds, timing, report, parts,
                   pass, arrived>>

\* MPI_Reduce with MPI_SUM over the ranks 0..k-1.
RECURSIVE Reduce(_, _)
Reduce(f, k) == IF k = 0 THEN 0 ELSE f[k - 1] + Reduce(f, k - 1)

\* (variant: the rank test of line 231 is missing)
ReportWriterAny(rank) == TRUE

\* analyze_communication, line 231: who writes the report.
ReportWriter(rank) == rank = 0

\* (variant: the sums are written undivided)
BlockOfSums(sz, total_comp_time, total_comm_time) ==
    With2(Rat(total_comp_time, 1), Rat(total_comm_time, 1),
          LAMBDA avg_comp, avg_comm :
        [processors |-> sz,
         avg_comp |-> avg_comp,
         avg_comm |-> avg_comm,
         comm_ratio |-> RMul(RDiv(avg_comm, RAdd(avg_comp, avg_comm)),
                             Rat(100, 1))])

\* analyze_communication, lines 232-241: the block written for the sums
\* total_comp_time and total_comm_time.
Block(sz, total_comp_time, total_comm_time) ==
    With2(Rat(total_comp_time, sz), Rat(total_comm_time, sz),
          LAMBDA avg_comp, avg_comm :
        [processors |-> sz,
         avg_comp |-> avg_comp,
         avg_comm |-> avg_comm,
         comm_ratio |-> RMul(RDiv(avg_comm, RAdd(avg_comp, avg_comm)),
                             Rat(100, 1))])

\* main, lines 336-358: analyze_communication (two reductions rooted at the
\* coordinator, which appends a block to the report), cleanup and
\* MPI_Finalize.
Finalize(Opens) ==
    /\ AllAt("analyze")
    /\ \E opened \in Opens :
       \E writers \in {{q \in Procs : ReportWriter(q)}},
          block \in {Block(size, Reduce(mult_time, size), Reduce(mult_comm, size))} :
           /\ report' = IF opened
                        THEN report \o [k \in 1 .. Cardinality(writers) |-> block]
                        ELSE report
           /\ writes' = writes \cup
                          UNION {Opened(q, ReportFile, TRUE, opened) : q \in writers}
           /\ failed' = failed \cup
                          UNION {NotOpened(q, ReportFile, TRUE, opened) : q \in writers}
    /\ pc' = [p \in Procs |-> "done"]
    /\ UNCHANGED <<size, n, clock, inv_size, rng, A, B, C, A_small, A_inv, work,
                   start_row, end_row, next_p, col, singular, chan, sends,
                   recvs, rounds, console, perf_log, timing, parts,
                   pass, arrived>>

\* Everything after the initialization of A and B, when consecutive clock
\* readings differ by a number of ticks in Gaps, an open for writing has an
\* outcome in Opens (TRUE: the file is opened) and inv_size is in InvSizes.
Step(Gaps, Opens, InvSizes) ==
    \/ BarrierInit
    \/ \E p \in Procs : MultiplyLocal(p, Gaps)
    \/ MultiplyRecv
    \/ MultiplyGathered
    \/ BarrierMult
    \/ \E p \in Procs : AfterMultiply(p, Gaps, Opens)
    \/ BarrierSave(InvSizes)
    \/ \E p \in Procs : InverseBegin(p)
    \/ \E p \in Procs : InverseColumn(p)
    \/ InverseAllgather
    \/ BarrierInv
    \/ \E p \in Procs : AfterInverse(p, Opens)
    \/ Finalize(Opens)

\* A run in which data/ and results/ exist and are writable (the Makefile
\* creates them) and the clock does not advance between consecutive readings
\* nor while a process waits.
Run == Step({0}, {TRUE}, 1 .. MaxInvN)

Next ==
    \/ \E p \in Procs : Setup(p)
    \/ Run

\* The program as written: rank p seeds its generator with time(NULL) + p.
Spec == Init /\ [][Next]_vars

\* Every process keeps running: a step that stays possible is taken.
FairSpec == Spec /\ WF_vars(Next)

\* The kernels called with the same matrices on every process: the state at
\* the first barrier when all ranks have drawn A and B (and later draw
\* A_small) from the same generator state.
InitSameInput ==
    /\ size \in 1 .. MaxProcs
    /\ n \in 1 .. MaxN
    /\ clock \in 0 .. MaxTime
    /\ inv_size = 0
    /\ pc = [p \in Procs |-> "barrier_init"]
    /\ rng = [p \in Procs |-> RandSkip(Srand(clock), 2 * n * n)]
    /\ A = [p \in Procs |-> InitializeMatrix(Srand(clock), n, n)]
    /\ B = [p \in Procs |-> InitializeMatrix(RandSkip(Srand(clock), n * n), n, n)]
    /\ C = [p \in Procs |-> Unallocated(n)]
    /\ A_small = [p \in Procs |-> Unallocated(inv_size)]
    /\ A_inv = [p \in Procs |-> Unallocated(inv_size)]
    /\ work = [p \in Procs |-> Unallocated(inv_size)]
    /\ start_row = [p \in Procs |-> 0]
    /\ end_row = [p \in Procs |-> 0]
    /\ next_p = 1
    /\ col = [p \in Procs |-> 0]
    /\ singular = [p \in Procs |-> FALSE]
    /\ chan = [p \in Procs |-> <<>>]
    /\ arrived = <<>>
    /\ sends = [p \in Procs |-> <<>>]
    /\ recvs = [p \in Procs |-> <<>>]
    /\ rounds = [p \in Procs |-> 0]
    /\ console = [p \in Procs |-> <<>>]
    /\ perf_log = <<>>
    /\ start_gap = [p \in Procs |-> 0]
    /\ kernel_time = [p \in Procs |-> 0]
    /\ mult_time = [p \in Procs |-> 0]
    /\ mult_comm = [p \in Procs |-> 0]
    /\ report = <<>>
    /\ parts = <<>>
    /\ writes = {}
    /\ failed = {}
    /\ PassIdle

SpecSameInput == InitSameInput /\ [][Run]_vars

\* The state of everything but the inputs when the processes are at the
\* barrier of line 281.
AtFirstBarrier ==
    /\ inv_size = 0
    /\ pc = [p \in Procs |-> "barrier_init"]
    /\ C = [p \in Procs |-> Unallocated(n)]
    /\ A_small = [p \in Procs |-> Unallocated(inv_size)]
    /\ A_inv = [p \in Procs |-> Unallocated(inv_size)]
    /\ work = [p \in Procs |-> Unallocated(inv_size)]
    /\ start_row = [p \in Procs |-> 0]
    /\ end_row = [p \in Procs |-> 0]
    /\ next_p = 1
    /\ col = [p \in Procs |-> 0]
    /\ singular = [p \in Procs |-> FALSE]
    /\ chan = [p \in Procs |-> <<>>]
    /\ arrived = <<>>
    /\ sends = [p \in Procs |-> <<>>]
    /\ recvs = [p \in Procs |-> <<>>]
    /\ rounds = [p \in Procs |-> 0]
    /\ console = [p \in Procs |-> <<>>]
    /\ perf_log = <<>>
    /\ start_gap = [p \in Procs |-> 0]
    /\ kernel_time = [p \in Procs |-> 0]
    /\ mult_time = [p \in Procs |-> 0]
    /\ mult_comm = [p \in Procs |-> 0]
    /\ report = <<>>
    /\ parts = <<>>
    /\ writes = {}
    /\ failed = {}
    /\ PassIdle

\* matrix_multiply_mpi called on every process with A the identity of
\* initialize_identity and with the same B, a matrix of initialize_matrix for
\* one of the seeds main can have.
InitIdentity ==
    /\ size \in 1 .. MaxProcs
    /\ n \in 1 .. MaxIdN
    /\ clock = 0
    /\ rng = [p \in Procs |-> 0]
    /\ A = [p \in Procs |-> InitializeIdentity(n)]
    /\ \E seed \in 0 .. (MaxTime + MaxProcs - 1) :
          B = [p \in Procs |-> InitializeMatrix(Srand(seed), n, n)]
    /\ AtFirstBarrier

\* The call of matrix_multiply_mpi between the barriers of lines 281 and 293.
NextMultiply ==
    \/ BarrierInit
    \/ \E p \in Procs : MultiplyLocal(p, {0})
    \/ MultiplyRecv
    \/ MultiplyGathered
    \/ BarrierMult

SpecIdentity == InitIdentity /\ [][NextMultiply]_vars

\* ------------------------------------------- one column pass, step by step
\* The entries of the matrices handed to matrix_inverse_mpi when one call is
\* followed step by step.
Entries == {Rat(-2, 1), Zero, Rat(2, 1)}

\* work and A_inv of the process that is followed.
Matrices == [work |-> work[0], A_inv |-> A_inv[0]]

\* matrix_inverse_mpi, lines 112-124, called on one process with a matrix A
\* of dimension 1..MaxEnvN over Entries: work is the copy of A, A_inv the
\* identity, the column loop is at column 0.
InitPivot ==
    /\ size = 1
    /\ n = 1
    /\ clock = 0
    /\ inv_size \in 1 .. MaxEnvN
    /\ pc = [p \in Procs |-> "select"]
    /\ rng = [p \in Procs |-> 0]
    /\ A = [p \in Procs |-> Unallocated(n)]
    /\ B = [p \in Procs |-> Unallocated(n)]
    /\ C = [p \in Procs |-> Unallocated(n)]
    /\ A_small \in [Procs -> [0 .. (inv_size * inv_size - 1) -> Entries]]
    /\ work = A_small
    /\ A_inv = [p \in Procs |-> InitializeIdentity(inv_size)]
    /\ start_row = [p \in Procs |-> 0]
    /\ end_row = [p \in Procs |-> 0]
    /\ next_p = 1
    /\ col = [p \in Procs |-> 0]
    /\ singular = [p \in Procs |-> FALSE]
    /\ chan = [p \in Procs |-> <<>>]
    /\ arrived = <<>>
    /\ sends = [p \in Procs |-> <<>>]
    /\ recvs = [p \in Procs |-> <<>>]
    /\ rounds = [p \in Procs |-> 0]
    /\ console = [p \in Procs |-> <<>>]
    /\ perf_log = <<>>
    /\ start_gap = [p \in Procs |-> 0]
    /\ kernel_time = [p \in Procs |-> 0]
    /\ mult_time = [p \in Procs |-> 0]
    /\ mult_comm = [p \in Procs |-> 0]
    /\ report = <<>>
    /\ parts = <<>>
    /\ writes = {}
    /\ failed = {}
    /\ PassIdle

\* What no step of a pass changes.
PassFrame ==
    UNCHANGED <<size, n, clock, inv_size, rng, A, B, C, A_small, next_p, chan,
                sends, recvs, rounds, perf_log, timing, files, arrived>>

\* Lines 127-136: the scan for the pivot row of column col.
PassSelect ==
    /\ pc[0] = "select"
    /\ pivotRow' = SelectPivot(work[0], col[0], inv_size)
    /\ before' = Matrices
    /\ pc' = [pc EXCEPT ![0] = "swap"]
    /\ PassFrame
    /\ UNCHANGED <<work, A_inv, col, singular, console, start_row, end_row,
                   pivotVal, todo, acc>>

\* Lines 138-144: the exchange of rows col and pivot_row in both matrices.
PassSwap ==
    /\ pc[0] = "swap"
    /\ work' = [work EXCEPT ![0] = SwapRows(@, col[0], pivotRow, inv_size)]
    /\ A_inv' = [A_inv EXCEPT ![0] = SwapRows(@, col[0], pivotRow, inv_size)]
    /\ before' = Matrices
    /\ pc' = [pc EXCEPT ![0] = "scale"]
    /\ PassFrame
    /\ UNCHANGED <<col, singular, console, start_row, end_row, pivotRow,
                   pivotVal, todo, acc>>

\* Lines 146-158: pivot is read and tested, then row col of both matrices
\* is divided by it.
PassScale ==
    /\ pc[0] = "scale"
    /\ before' = Matrices
    /\ \E pv \in {Cell(work[0], col[0], col[0], inv_size)} :
           /\ pivotVal' = pv
           /\ IF BelowThreshold(pv)
              THEN /\ singular' = [singular EXCEPT ![0] = TRUE]
                   /\ console' = [console EXCEPT ![0] =
                                    Append(@, "Matrix is singular!")]
                   /\ pc' = [pc EXCEPT ![0] = "returned"]
                   /\ UNCHANGED <<work, A_inv>>
              ELSE /\ work' = [work EXCEPT ![0] = ScaleRow(@, col[0], pv, inv_size)]
                   /\ A_inv' = [A_inv EXCEPT ![0] = ScaleRow(@, col[0], pv, inv_size)]
                   /\ pc' = [pc EXCEPT ![0] = "eliminate"]
                   /\ UNCHANGED <<singular, console>>
    /\ PassFrame
    /\ UNCHANGED <<col, start_row, end_row, pivotRow, todo, acc>>

\* Lines 160-173 when the call was made with the arguments rank and sz: the
\* partition is computed and its rows are eliminated in both matrices.
PassEliminate(rank, sz) ==
    /\ pc[0] = "eliminate"
    /\ before' = Matrices
    /\ \E sr \in {StartRow(rank, sz, inv_size)}, er \in {EndRow(rank, sz, inv_size)} :
           /\ start_row' = [start_row EXCEPT ![0] = sr]
           /\ end_row' = [end_row EXCEPT ![0] = er]
           /\ work' = [work EXCEPT ![0] =
                          EliminateRows(@, work[0], col[0], sr, er, inv_size)]
           /\ A_inv' = [A_inv EXCEPT ![0] =
                           EliminateRows(@, work[0], col[0], sr, er, inv_size)]
    /\ pc' = [pc EXCEPT ![0] = "synchronize"]
    /\ PassFrame
    /\ UNCHANGED <<col, singular, console, pivotRow, pivotVal, todo, acc>>

\* Lines 126 and 176-179 when the partition of the process is the whole
\* matrix: the all-gathers leave both matrices as they are and the loop goes
\* on to the next column.
PassNextColumn ==
    /\ pc[0] = "synchronize"
    /\ start_row[0] = 0
    /\ end_row[0] = inv_size
    /\ col[0] + 1 < inv_size
    /\ col' = [col EXCEPT ![0] = @ + 1]
    /\ pc' = [pc EXCEPT ![0] = "select"]
    /\ PassFrame
    /\ UNCHANGED <<work, A_inv, singular, console, start_row, end_row, pass>>

NextPivot ==
    \/ PassSelect
    \/ PassSwap
    \/ PassScale
    \/ \E sz \in 1 .. MaxEnvProcs : \E rank \in 0 .. (sz - 1) : PassEliminate(rank, sz)
    \/ PassNextColumn

SpecPivot == InitPivot /\ [][NextPivot]_vars

\* -------------------------------------- the parallel loops, by iteration
\* OpenMP hands every iteration of a parallel loop to exactly one thread and
\* orders the iterations of different threads in no way: the iterations of a
\* loop are executed one at a time in any order, and acc records what each
\* one reads and writes.
Reads(it, array, indices) == {<<it, "r", array, k>> : k \in indices}

Writes(it, array, indices) == {<<it, "w", array, k>> : k \in indices}

\* The indices of row i of a matrix of dimension nn.
RowIndices(i, nn) == {i * nn + j : j \in 0 .. (nn - 1)}

\* Lines 155-158, iteration j, for one matrix.
ScaleCell(m, c, j, pv, nn) == [m EXCEPT ![c * nn + j] = RDiv(@, pv)]

\* (variant: the test i != col of line 165 is missing)
EliminatesRowAlways(i, c) == TRUE

\* Line 165: the iteration for row i does something.
EliminatesRow(i, c) == i # c

\* Lines 165-172, iteration i, for one matrix m (work or A_inv) as it is
\* when the iteration runs; factor is read from w, the work of that moment.
EliminateRow(m, w, c, i, nn) ==
    IF EliminatesRow(i, c)
    THEN [k \in DOMAIN m |->
            IF k \div nn = i
            THEN RSub(m[k], RMul(Cell(w, i, c, nn), m[c * nn + (k % nn)]))
            ELSE m[k]]
    ELSE m

\* What iteration i of lines 164-173 reads and writes.
EliminateAccesses(i, c, nn) ==
    IF EliminatesRow(i, c)
    THEN Reads(i, "work", RowIndices(i, nn) \cup RowIndices(c, nn))
         \cup Reads(i, "A_inv", RowIndices(i, nn) \cup RowIndices(c, nn))
         \cup Writes(i, "work", RowIndices(i, nn))
         \cup Writes(i, "A_inv", RowIndices(i, nn))
    ELSE {}

\* The largest dimension of the matrix whose loops are followed by iteration.
MaxLoopN == 3

\* matrix_inverse_mpi, lines 112-124, called on one process with the matrix
\* initialize_matrix gives for one of the seeds main can have.
InitLoops ==
    /\ size = 1
    /\ n = 1
    /\ clock = 0
    /\ inv_size \in 1 .. MaxLoopN
    /\ pc = [p \in Procs |-> "select"]
    /\ \E seed \in 0 .. (MaxTime + MaxProcs - 1) :
          /\ A_small = [p \in Procs |->
                          InitializeMatrix(Srand(seed), inv_size, inv_size)]
          /\ rng = [p \in Procs |-> RandSkip(Srand(seed), inv_size * inv_size)]
    /\ A = [p \in Procs |-> Unallocated(n)]
    /\ B = [p \in Procs |-> Unallocated(n)]
    /\ C = [p \in Procs |-> Unallocated(n)]
    /\ work = A_small
    /\ A_inv = [p \in Procs |-> InitializeIdentity(inv_size)]
    /\ start_row = [p \in Procs |-> 0]
    /\ end_row = [p \in Procs |-> 0]
    /\ next_p = 1
    /\ col = [p \in Procs |-> 0]
    /\ singular = [p \in Procs |-> FALSE]
    /\ chan = [p \in Procs |-> <<>>]
    /\ arrived = <<>>
    /\ sends = [p \in Procs |-> <<>>]
    /\ recvs = [p \in Procs |-> <<>>]
    /\ rounds = [p \in Procs |-> 0]
    /\ console = [p \in Procs |-> <<>>]
    /\ perf_log = <<>>
    /\ start_gap = [p \in Procs |-> 0]
    /\ kernel_time = [p \in Procs |-> 0]
    /\ mult_time = [p \in Procs |-> 0]
    /\ mult_comm = [p \in Procs |-> 0]
    /\ report = <<>>
    /\ parts = <<>>
    /\ writes = {}
    /\ failed = {}
    /\ PassIdle

\* Lines 127-152, executed by the one thread outside the parallel loops: scan,
\* swap, pivot read and tested; then the threads start on the Scale loop.
LoopPivot ==
    /\ pc[0] = "select"
    /\ \E pr \in {SelectPivot(work[0], col[0], inv_size)} :
       \E w1 \in {SwapRows(work[0], col[0], pr, inv_size)},
          a1 \in {SwapRows(A_inv[0], col[0], pr, inv_size)} :
       \E pv \in {Cell(w1, col[0], col[0], inv_size)} :
           /\ pivotRow' = pr
           /\ pivotVal' = pv
           /\ work' = [work EXCEPT ![0] = w1]
           /\ A_inv' = [A_inv EXCEPT ![0] = a1]
           /\ before' = [work |-> w1, A_inv |-> a1]
           /\ IF BelowThreshold(pv)
              THEN /\ singular' = [singular EXCEPT ![0] = TRUE]
                   /\ console' = [console EXCEPT ![0] =
                                    Append(@, "Matrix is singular!")]
                   /\ pc' = [pc EXCEPT ![0] = "returned"]
                   /\ UNCHANGED todo
              ELSE /\ todo' = 0 .. (inv_size - 1)
                   /\ pc' = [pc EXCEPT ![0] = "scale_loop"]
                   /\ UNCHANGED <<singular, console>>
    /\ acc' = {}
    /\ PassFrame
    /\ UNCHANGED <<col, start_row, end_row>>

\* Lines 155-158: iteration j of the Scale loop.
LoopScaleCell(j) ==
    /\ pc[0] = "scale_loop"
    /\ j \in todo
    /\ work' = [work EXCEPT ![0] = ScaleCell(@, col[0], j, pivotVal, inv_size)]
    /\ A_inv' = [A_inv EXCEPT ![0] = ScaleCell(@, col[0], j, pivotVal, inv_size)]
    /\ acc' = acc \cup Reads(j, "pivot", {0})
                  \cup Reads(j, "work", {col[0] * inv_size + j})
                  \cup Writes(j, "work", {col[0] * inv_size + j})
                  \cup Reads(j, "A_inv", {col[0] * inv_size + j})
                  \cup Writes(j, "A_inv", {col[0] * inv_size + j})
    /\ todo' = todo \ {j}
    /\ PassFrame
    /\ UNCHANGED <<pc, col, singular, console, start_row, end_row, pivotRow,
                   pivotVal, before>>

\* Lines 160-164 when the call was made with the arguments rank and sz: the
\* Scale loop has ended, the partition is computed and the threads start on
\* the Eliminate loop.
LoopEliminateBegin(rank, sz) ==
    /\ pc[0] = "scale_loop"
    /\ todo = {}
    /\ \E sr \in {StartRow(rank, sz, inv_size)}, er \in {EndRow(rank, sz, inv_size)} :
           /\ start_row' = [start_row EXCEPT ![0] = sr]
           /\ end_row' = [end_row EXCEPT ![0] = er]
           /\ todo' = sr .. (er - 1)
    /\ acc' = {}
    /\ before' = Matrices
    /\ pc' = [pc EXCEPT ![0] = "eliminate_loop"]
    /\ PassFrame
    /\ UNCHANGED <<work, A_inv, col, singular, console, pivotRow, pivotVal>>

\* Lines 165-172: iteration i of the Eliminate loop.
LoopEliminateRow(i) ==
    /\ pc[0] = "eliminate_loop"
    /\ i \in todo
    /\ work' = [work EXCEPT ![0] = EliminateRow(@, work[0], col[0], i, inv_size)]
    /\ A_inv' = [A_inv EXCEPT ![0] = EliminateRow(@, work[0], col[0], i, inv_size)]
    /\ acc' = acc \cup EliminateAccesses(i, col[0], inv_size)
    /\ todo' = todo \ {i}
    /\ PassFrame
    /\ UNCHANGED <<pc, col, singular, console, start_row, end_row, pivotRow,
                   pivotVal, before>>

\* Line 173: the Eliminate loop has ended and the threads have joined.
LoopEliminateJoin ==
    /\ pc[0] = "eliminate_loop"
    /\ todo = {}
    /\ pc' = [pc EXCEPT ![0] = "synchronize"]
    /\ PassFrame
    /\ UNCHANGED <<work, A_inv, col, singular, console, start_row, end_row, pass>>

NextLoops ==
    \/ LoopPivot
    \/ \E j \in 0 .. (inv_size - 1) : LoopScaleCell(j)
    \/ \E sz \in 1 .. MaxEnvProcs : \E rank \in 0 .. (sz - 1) :
          LoopEliminateBegin(rank, sz)
    \/ \E i \in 0 .. (inv_size - 1) : LoopEliminateRow(i)
    \/ LoopEliminateJoin
    \/ PassNextColumn

SpecLoops == InitLoops /\ [][NextLoops]_vars

\* initialize_matrix(A_small, inv_size, inv_size), line 318, entered on one
\* process after srand(time(NULL) + rank) of line 260: the array is allocated
\* and not yet written, and the threads start on the loop of lines 57-62.
InitInitLoop ==
    /\ size = 1
    /\ n = 1
    /\ clock = 0
    /\ inv_size \in 1 .. MaxEnvN
    /\ pc = [p \in Procs |-> "init_loop"]
    /\ \E seed \in 0 .. (MaxTime + MaxProcs - 1) :
          rng = [p \in Procs |-> Srand(seed)]
    /\ A_small = [p \in Procs |-> Unallocated(inv_size)]
    /\ A = [p \in Procs |-> Unallocated(n)]
    /\ B = [p \in Procs |-> Unallocated(n)]
    /\ C = [p \in Procs |-> Unallocated(n)]
    /\ work = [p \in Procs |-> Unallocated(inv_size)]
    /\ A_inv = [p \in Procs |-> Unallocated(inv_size)]
    /\ start_row = [p \in Procs |-> 0]
    /\ end_row = [p \in Procs |-> 0]
    /\ next_p = 1
    /\ col = [p \in Procs |-> 0]
    /\ singular = [p \in Procs |-> FALSE]
    /\ chan = [p \in Procs |-> <<>>]
    /\ arrived = <<>>
    /\ sends = [p \in Procs |-> <<>>]
    /\ recvs = [p \in Procs |-> <<>>]
    /\ rounds = [p \in Procs |-> 0]
    /\ console = [p \in Procs |-> <<>>]
    /\ perf_log = <<>>
    /\ start_gap = [p \in Procs |-> 0]
    /\ kernel_time = [p \in Procs |-> 0]
    /\ mult_time = [p \in Procs |-> 0]
    /\ mult_comm = [p \in Procs |-> 0]
    /\ report = <<>>
    /\ parts = <<>>
    /\ writes = {}
    /\ failed = {}
    /\ pivotRow = 0
    /\ pivotVal = Zero
    /\ todo = 0 .. (inv_size * inv_size - 1)
    /\ acc = {}
    /\ before = [work |-> <<>>, A_inv |-> <<>>]

\* Line 60, the iteration for cell k = i * cols + j: rand() reads the state
\* of the process's generator and writes the next one, and the cell receives
\* (double)(rand() % 100) / 10.0.
InitLoopCell(k) ==
    /\ pc[0] = "init_loop"
    /\ k \in todo
    /\ rng' = [rng EXCEPT ![0] = Rand(@)]
    /\ A_small' = [A_small EXCEPT ![0][k] = Rat(Rand(rng[0]) % 100, 10)]
    /\ acc' = acc \cup Reads(k, "rand", {0}) \cup Writes(k, "rand", {0})
                  \cup Writes(k, "matrix", {k})
    /\ todo' = todo \ {k}
    /\ UNCHANGED <<size, n, clock, inv_size, pc, A, B, C, work, A_inv, start_row,
                   end_row, next_p, col, singular, chan, sends, recvs, rounds,
                   console, perf_log, timing, files, pivotRow, pivotVal, before,
                   arrived>>

\* Line 62: the loop has ended and the threads have joined.
InitLoopJoin ==
    /\ pc[0] = "init_loop"
    /\ todo = {}
    /\ pc' = [pc EXCEPT ![0] = "initialized"]
    /\ UNCHANGED <<size, n, clock, inv_size, rng, A, B, C, A_small, work, A_inv,
                   start_row, end_row, next_p, col, singular, chan, sends, recvs,
                   rounds, console, perf_log, timing, files, pass, arrived>>

NextInitLoop ==
    \/ \E k \in 0 .. (inv_size * inv_size - 1) : InitLoopCell(k)
    \/ InitLoopJoin

SpecInitLoop == InitInitLoop /\ [][NextInitLoop]_vars

\* ------------------------------------------------------ saving and loading
\* (variant: the rows read are stored from the top of the matrix)
LoadMatrixDistributedToTop(fs, matrix, nn, filename, rank, sz, opened) ==
    IF opened
    THEN With2(fs[PartFileName(filename, rank)].cells,
               (EndRow(rank, sz, nn) - StartRow(rank, sz, nn)) * nn,
               LAMBDA cells, count :
             Store(matrix, 0,
                   SubSeq(cells, 1, IF Len(cells) < count THEN Len(cells) ELSE count)))
    ELSE matrix

\* load_matrix_distributed, lines 205-221: rows start_row..end_row-1 of
\* matrix are read from the start of the file, as far as the file goes;
\* nothing happens when it cannot be opened.
LoadMatrixDistributed(fs, matrix, nn, filename, rank, sz, opened) ==
    IF opened
    THEN With2(fs[PartFileName(filename, rank)].cells,
               (EndRow(rank, sz, nn) - StartRow(rank, sz, nn)) * nn,
               LAMBDA cells, count :
             Store(matrix, StartRow(rank, sz, nn) * nn,
                   SubSeq(cells, 1, IF Len(cells) < count THEN Len(cells) ELSE count)))
    ELSE matrix

\* save_matrix_distributed(C, n, "data/matrix_C", rank, size) followed by
\* load_matrix_distributed(B, n, "data/matrix_C", rank, size) on every rank,
\* C and B being matrices initialize_matrix gives for two of the seeds main
\* can have.
InitRoundTrip ==
    /\ size \in 1 .. MaxProcs
    /\ n \in 1 .. MaxN
    /\ clock = 0
    /\ inv_size = 0
    /\ pc = [p \in Procs |-> "save"]
    /\ \E seed \in 0 .. MaxTime :
          /\ rng = [p \in Procs |-> RandSkip(Srand(seed + p + 1), n * n)]
          /\ C = [p \in Procs |-> InitializeMatrix(Srand(seed + p), n, n)]
          /\ B = [p \in Procs |-> InitializeMatrix(Srand(seed + p + 1), n, n)]
    /\ A = [p \in Procs |-> Unallocated(n)]
    /\ A_small = [p \in Procs |-> Unallocated(inv_size)]
    /\ A_inv = [p \in Procs |-> Unallocated(inv_size)]
    /\ work = [p \in Procs |-> Unallocated(inv_size)]
    /\ start_row = [p \in Procs |-> 0]
    /\ end_row = [p \in Procs |-> 0]
    /\ next_p = 1
    /\ col = [p \in Procs |-> 0]
    /\ singular = [p \in Procs |-> FALSE]
    /\ chan = [p \in Procs |-> <<>>]
    /\ arrived = <<>>
    /\ sends = [p \in Procs |-> <<>>]
    /\ recvs = [p \in Procs |-> <<>>]
    /\ rounds = [p \in Procs |-> 0]
    /\ console = [p \in Procs |-> <<>>]
    /\ perf_log = <<>>
    /\ start_gap = [p \in Procs |-> 0]
    /\ kernel_time = [p \in Procs |-> 0]
    /\ mult_time = [p \in Procs |-> 0]
    /\ mult_comm = [p \in Procs |-> 0]
    /\ report = <<>>
    /\ parts = <<>>
    /\ writes = {}
    /\ failed = {}
    /\ PassIdle

\* What neither function touches.
RoundTripFrame ==
    UNCHANGED <<size, n, clock, inv_size, rng, A, C, A_small, A_inv, work, next_p,
                col, singular, chan, sends, recvs, rounds, console, perf_log,
                timing, report, pass, arrived>>

\* save_matrix_distributed on rank p, lines 186-202.
Save(p) ==
    /\ pc[p] = "save"
    /\ \E opened \in BOOLEAN :
           /\ parts' = SaveMatrixDistributed(parts, C[p], n, PartFile, p, size, opened)
           /\ writes' = writes \cup Opened(p, PartFileName(PartFile, p), TRUE, opened)
           /\ failed' = failed \cup NotOpened(p, PartFileName(PartFile, p), TRUE, opened)
    /\ start_row' = [start_row EXCEPT ![p] = StartRow(p, size, n)]
    /\ end_row' = [end_row EXCEPT ![p] = EndRow(p, size, n)]
    /\ pc' = [pc EXCEPT ![p] = "load"]
    /\ UNCHANGED B
    /\ RoundTripFrame

\* load_matrix_distributed on rank p, lines 205-221; a file that does not
\* exist cannot be opened.
Load(p) ==
    /\ pc[p] = "load"
    /\ \E opened \in {o \in BOOLEAN : o => PartFileName(PartFile, p) \in DOMAIN parts} :
           /\ B' = [B EXCEPT ![p] =
                      LoadMatrixDistributed(parts, @, n, PartFile, p, size, opened)]
           /\ writes' = writes \cup Opened(p, PartFileName(PartFile, p), TRUE, opened)
           /\ failed' = failed \cup NotOpened(p, PartFileName(PartFile, p), TRUE, opened)
    /\ start_row' = [start_row EXCEPT ![p] = StartRow(p, size, n)]
    /\ end_row' = [end_row EXCEPT ![p] = EndRow(p, size, n)]
    /\ pc' = [pc EXCEPT ![p] = "loaded"]
    /\ UNCHANGED parts
    /\ RoundTripFrame

NextRoundTrip ==
    \/ \E p \in Procs : Save(p)
    \/ \E p \in Procs : Load(p)

SpecRoundTrip == InitRoundTrip /\ [][NextRoundTrip]_vars

\* Small runs of main for the behaviour of the clock and of the file system.
InitEnv ==
    /\ Init
    /\ size <= MaxEnvProcs
    /\ n <= MaxEnvN
    /\ clock = 0

\* Consecutive readings of MPI_Wtime are up to MaxGap ticks apart.
NextClock ==
    \/ \E p \in Procs : Setup(p)
    \/ Step(0 .. MaxGap, {TRUE}, 1 .. MaxEnvN)

SpecClock == InitEnv /\ [][NextClock]_vars

\* Runs for the report: consecutive clock readings coincide or differ by
\* MaxGap ticks, and the inversion is that of a matrix of dimension 1.
NextReport ==
    \/ \E p \in Procs : Setup(p)
    \/ Step({0, MaxGap}, {TRUE}, {1})

SpecReport == InitEnv /\ [][NextReport]_vars

\* No process stops while it has a statement to execute or a collective it
\* is in can complete.
FairSpecReport == SpecReport /\ WF_vars(NextReport)

\* Every open for writing may fail.
NextFiles ==
    \/ \E p \in Procs : Setup(p)
    \/ Step({0}, BOOLEAN, 1 .. MaxEnvN)

SpecFiles == InitEnv /\ [][NextFiles]_vars

\* ================================================================ properties
\* Positions of main at which a process has left matrix_multiply_mpi.
AfterMultiplyLabels ==
    {"barrier_mult", "log_mult", "barrier_save", "inverse", "column",
     "allgather", "barrier_inv", "log_inv", "analyze", "done"}

MultiplyReturned(p) == pc[p] \in AfterMultiplyLabels

\* Process p has computed its partition.
PartitionComputed(p) == pc[p] \in AfterMultiplyLabels \cup {"gather", "sending"}

\* The ranges [sr[p], er[p]) of the ranks are contiguous, in rank order, and
\* every row of 0..nn-1 lies in exactly one of them.
CoversExactlyOnce(sr, er, nn) ==
    /\ sr[0] = 0
    /\ er[size - 1] = nn
    /\ \A p \in Procs : sr[p] <= er[p]
    /\ \A p \in Procs : p + 1 < size => er[p] = sr[p + 1]
    /\ \A i \in 0 .. (nn - 1) :
         Cardinality({p \in Procs : sr[p] <= i /\ i < er[p]}) = 1

PartitionSize(p) == end_row[p] - start_row[p]

\* The matrix product, cell by cell, summed from the highest index down.
RECURSIVE SumFrom(_, _, _, _, _, _)
SumFrom(a, b, i, j, nn, k) ==
    IF k >= nn THEN Zero
    ELSE RAdd(RMul(a[i * nn + k], b[k * nn + j]), SumFrom(a, b, i, j, nn, k + 1))

Product(a, b, nn) ==
    [k \in 0 .. (nn * nn - 1) |-> SumFrom(a, b, k \div nn, k % nn, nn, 0)]

SameInputs == \A p, q \in Procs : A[p] = A[q] /\ B[p] = B[q]

\* C1: the row ranges the ranks compute from (n, size, rank), in the
\* multiplication and in the inversion, are contiguous, do not overlap and
\* cover [0, n) exactly once, for size dividing n, not dividing n, or > n.
C1_PartitionsCoverRows ==
    /\ \A p, q \in Procs :
         (p < q /\ PartitionComputed(p) /\ PartitionComputed(q))
            => end_row[p] <= start_row[q]
    /\ (\A p \in Procs : PartitionComputed(p))
         => CoversExactlyOnce(start_row, end_row, n)
    /\ inv_size > 0
         => CoversExactlyOnce([p \in Procs |-> StartRow(p, size, inv_size)],
                              [p \in Procs |-> EndRow(p, size, inv_size)],
                              inv_size)

\* Every rank has computed its partition and the process count neither
\* divides n nor exceeds it.
C1_Witness ==
    /\ \A p \in Procs : PartitionComputed(p)
    /\ 1 < size /\ size < n /\ n % size # 0
    /\ inv_size > 0 /\ size > inv_size

\* C2 as stated: no two partitions differ in size by more than one row.
C2_SizesWithinOne ==
    \A p, q \in Procs :
        (PartitionComputed(p) /\ PartitionComputed(q))
           => PartitionSize(p) - PartitionSize(q) <= 1

\* C2, amended: every rank but the last owns n div size rows and the last
\* rank owns n div size + n mod size rows, so two partitions differ by at
\* most n mod size rows.
C2_RemainderOnLastRank ==
    /\ \A p \in Procs :
         PartitionComputed(p)
            => PartitionSize(p) =
                 (n \div size) + (IF p = size - 1 THEN n % size ELSE 0)
    /\ \A p, q \in Procs :
         (PartitionComputed(p) /\ PartitionComputed(q))
            => PartitionSize(p) - PartitionSize(q) <= n % size

\* Two ranks have computed partitions that differ by two rows.
C2_Witness ==
    \E p, q \in Procs :
        /\ PartitionComputed(p) /\ PartitionComputed(q)
        /\ PartitionSize(q) - PartitionSize(p) >= 2

\* C3: called with the same A and B on every process, once the coordinator
\* has finished the merge its C is the product A x B in every cell.
C3_CoordinatorHoldsProduct ==
    (SameInputs /\ MultiplyReturned(0)) => C[0] = Product(A[0], B[0], n)

\* The merge is over with two or more processes whose count does not divide n.
C3_Witness ==
    /\ SameInputs /\ MultiplyReturned(0)
    /\ size >= 2 /\ n % size # 0 /\ size < n
    /\ C[0] = Product(A[0], B[0], n)

\* C4: in a run of main the coordinator's C is the product of the
\* coordinator's own A and B, whatever the process count.
C4_ResultIndependentOfDecomposition ==
    MultiplyReturned(0) => C[0] = Product(A[0], B[0], n)

\* Positions of main at which a process has left matrix_inverse_mpi.
AfterInverseLabels == {"barrier_inv", "log_inv", "analyze", "done"}

InverseReturned(p) == pc[p] \in AfterInverseLabels

\* The single-process elimination of m flags no singularity.
Invertible(m, nn) ==
    ~ColumnLoop(m, InitializeIdentity(nn), 0, nn - 1, 0, 1, nn).singular

\* The rank whose partition of 0..nn-1 holds row r.
Owner(r, nn) ==
    CHOOSE p \in Procs : StartRow(p, size, nn) <= r /\ r < EndRow(p, size, nn)

\* C5: when every process has returned from matrix_inverse_mpi, none having
\* flagged a singularity, A x A_inv is the identity on every process whose
\* input A is invertible, whatever the process count.
C5_InverseOnEveryProcess ==
    (\A q \in Procs : InverseReturned(q) /\ ~singular[q])
       => \A p \in Procs :
             Invertible(A_small[p], inv_size)
                => Product(A_small[p], A_inv[p], inv_size)
                      = InitializeIdentity(inv_size)

\* The step taken when every process has entered the all-gathers of a
\* column: on every process q, every row r of work and of A_inv becomes row r
\* as the owner of r held it after its elimination for this column.
C6_SynchronizeStep ==
    AllAt("allgather")
       => \A q \in Procs : \A k \in 0 .. (inv_size * inv_size - 1) :
             /\ work'[q][k] = work[Owner(k \div inv_size, inv_size)][k]
             /\ A_inv'[q][k] = A_inv[Owner(k \div inv_size, inv_size)][k]

\* C6: after the Synchronize step of every pivot column every process holds
\* the same work and A_inv, each row as updated by the process that owns it.
C6_SynchronizedAfterEveryColumn == [][C6_SynchronizeStep]_vars

\* What a process that flagged a singularity at column col[p] has left behind.
C7_Aborted(p) ==
    /\ InverseReturned(p)
    /\ BelowThreshold(Cell(work[p], col[p], col[p], inv_size))
    /\ rounds[p] = col[p]
    /\ Len(SelectSeq(console[p], LAMBDA m : m = "Matrix is singular!")) = 1

\* A pass of p through the column loop whose pivot, after the scan and the
\* swap, is below the threshold.
C7_SingularPass(p) ==
    LET c == col[p]
        pivot_row == SelectPivot(work[p], c, inv_size)
        w1 == SwapRows(work[p], c, pivot_row, inv_size)
        a1 == SwapRows(A_inv[p], c, pivot_row, inv_size)
    IN  (pc[p] = "column" /\ pc'[p] # "column"
           /\ BelowThreshold(Cell(w1, c, c, inv_size)))
          => /\ singular'[p]
             /\ work'[p] = w1
             /\ A_inv'[p] = a1
             /\ col'[p] = c
             /\ rounds'[p] = rounds[p]
             /\ pc'[p] = "barrier_inv"
             /\ console'[p] = Append(console[p], "Matrix is singular!")

C7_NothingAfterAbort(p) ==
    singular[p]
       => /\ singular'[p]
          /\ work'[p] = work[p]
          /\ A_inv'[p] = A_inv[p]
          /\ col'[p] = col[p]
          /\ rounds'[p] = rounds[p]
          /\ InverseReturned(p)'

\* C7: a pass whose pivot is below the threshold reports "Matrix is
\* singular!" and returns with the matrices as the swap left them (no scale,
\* no elimination), without entering the all-gather of that column; from then
\* on the process touches no matrix and processes no further column.
C7_SingularAborts ==
    /\ [](\A p \in Procs : singular[p] => C7_Aborted(p))
    /\ [][\A p \in Procs : C7_SingularPass(p) /\ C7_NothingAfterAbort(p)]_vars

\* A process has flagged the singularity after completed columns, in a run
\* whose all-gathers transfer data.
C7_Witness ==
    \E p \in Procs :
        /\ singular[p] /\ col[p] > 0
        /\ GatherCount(inv_size, size) > 0
        /\ C7_Aborted(p)

\* C8: after a singular abort past the first column the caller's A_inv holds
\* none of the reduced accumulator (it is cleared or back to the identity),
\* and when the coordinator aborted the run neither prints the inversion as
\* completed nor logs a Matrix_Inversion record.
C8_NoClaimedInverse ==
    /\ \A p \in Procs :
         (singular[p] /\ col[p] > 0)
            => A_inv[p] \in {Unallocated(inv_size), InitializeIdentity(inv_size)}
    /\ singular[0]
         => /\ \A k \in 1 .. Len(console[0]) : console[0][k] # "Completed inv"
            /\ \A k \in 1 .. Len(perf_log) : perf_log[k][1] # "Matrix_Inversion"

AllDone == \A p \in Procs : pc[p] = "done"

\* C9: once some process has abandoned the inversion every process reaches
\* MPI_Finalize, and no process ever waits in an all-gather for a process
\* that has already returned.
C9_SingularNeverHangs ==
    /\ [](\A p, q \in Procs : ~(singular[p] /\ pc[q] = "allgather"))
    /\ (\E p \in Procs : singular[p]) ~> AllDone

\* The merge as far as it has gone: one send per non-coordinator rank, of
\* exactly its rows of the product; one receive per sender, with the
\* sender's count and the offset of the sender's first row; no truncation.
C10_MergeMatches ==
    /\ \A p \in Procs : pc[p] # "aborted"
    /\ sends[0] = <<>> /\ recvs[0] = <<>> /\ chan[0] = <<>>
    /\ \A p \in Procs \ {0} :
         /\ Len(sends[p]) <= 1 /\ Len(recvs[p]) <= Len(sends[p])
         /\ Len(chan[p]) = Len(sends[p]) - Len(recvs[p])
         /\ PartitionComputed(p) => Len(sends[p]) = 1
         /\ Len(sends[p]) = 1
              => /\ sends[p][1] = PartitionSize(p) * n
                 /\ \A k \in start_row[p] * n .. (end_row[p] * n - 1) :
                      C[p][k] = Product(A[p], B[p], n)[k]
         /\ chan[p] # <<>>
              => /\ Len(chan[p][1]) = sends[p][1]
                 /\ \A k \in 1 .. sends[p][1] :
                      chan[p][1][k] = C[p][start_row[p] * n + k - 1]
         /\ Len(recvs[p]) = 1
              => /\ recvs[p][1] = <<start_row[p] * n, sends[p][1]>>
                 /\ \A k \in start_row[p] * n .. (end_row[p] * n - 1) :
                      C[0][k] = C[p][k]
    /\ MultiplyReturned(0)
         => \A p \in Procs \ {0} : Len(recvs[p]) = 1 /\ chan[p] = <<>>

\* C10: the sends and receives of the merge match one to one in count and
\* target rows, and every process eventually leaves matrix_multiply_mpi with
\* no message left in flight.
C10_MergeCompletes ==
    /\ []C10_MergeMatches
    /\ <>(\A p \in Procs : MultiplyReturned(p) /\ chan[p] = <<>>)

\* The merge is over with a last rank that owns remainder rows.
C10_Witness ==
    /\ \A p \in Procs : MultiplyReturned(p)
    /\ size >= 2 /\ n % size # 0
    /\ recvs[size - 1] = <<<<start_row[size - 1] * n,
                             ((n \div size) + (n % size)) * n>>>>

\* ------------------------------------------------------ frame of the product
\* Cell k of C on process p is written by p's own loop over its rows.
ComputedByOwner(p, k) ==
    /\ pc[p] = "multiply"
    /\ StartRow(p, size, n) <= k \div n
    /\ k \div n < EndRow(p, size, n)
    /\ C'[p][k] = Dot(A[p], B[p], k \div n, k % n, n)

\* Cell k of C on the coordinator is taken from the message of the rank that
\* owns its row.
ReceivedFromOwner(p, k) ==
    /\ p = 0
    /\ pc[0] = "gather"
    /\ next_p < size
    /\ Owner(k \div n, n) = next_p
    /\ chan[next_p] # <<>>
    /\ chan'[next_p] = Tail(chan[next_p])
    /\ k - StartRow(next_p, size, n) * n + 1 \in DOMAIN Head(chan[next_p])
    /\ C'[0][k] = Head(chan[next_p])[k - StartRow(next_p, size, n) * n + 1]

C11_Step ==
    \A p \in Procs : \A k \in 0 .. (n * n - 1) :
        C'[p][k] # C[p][k] => ComputedByOwner(p, k) \/ ReceivedFromOwner(p, k)

\* C11: a cell of C changes on a process only when that process computes it
\* as a cell of a row of its own partition, or, on the coordinator, when it
\* is received from the rank that owns its row; every other cell of C keeps
\* its value in every step.
C11_OnlyOwnRowsWritten == [][C11_Step]_vars

\* A non-coordinator has computed its rows and left a row outside its
\* partition untouched, and the coordinator has received these rows.
C11_Witness ==
    \E p \in Procs \ {0} :
        /\ PartitionComputed(p)
        /\ next_p > p
        /\ \E k \in 0 .. (n * n - 1) :
              /\ Owner(k \div n, n) = p
              /\ C[p][k] # Uninit
              /\ C[0][k] = C[p][k]
        /\ \E k \in 0 .. (n * n - 1) :
              /\ Owner(k \div n, n) # p
              /\ C[p][k] = Uninit

\* ------------------------------------------------------------------ timing
\* x <= y for rationals.
RLeq(x, y) == ~RGt(x, y)

\* C12: in every block of the bottleneck report the communication overhead
\* lies between 0 and 100 percent and is avg_comm / (avg_comp + avg_comm) * 100
\* for the averages of the same block.
C12_OverheadIsPercentage ==
    \A i \in DOMAIN report :
        /\ RLeq(Zero, report[i].comm_ratio)
        /\ RLeq(report[i].comm_ratio, Rat(100, 1))
        /\ report[i].comm_ratio =
              RMul(RDiv(report[i].avg_comm,
                        RAdd(report[i].avg_comp, report[i].avg_comm)),
                   Rat(100, 1))

\* Process p has taken its readings of lines 294 and 295.
TimesTaken(p) == pc[p] \in AfterMultiplyLabels \ {"barrier_mult", "log_mult"}

\* C13: the computation time a process reports for the multiplication is the
\* time of its local loop, so that the time of the merge and of the barrier
\* is part of its communication time only.
C13_ComputationIsKernelSpan ==
    \A p \in Procs : TimesTaken(p) => mult_time[p] = kernel_time[p]

\* ------------------------------------------------------------------- files
\* C14: only rank 0 ever opens the performance log or the bottleneck report,
\* whatever the process count.
C14_OnlyCoordinatorWritesLogs ==
    \A w \in writes \cup failed :
        w[2] \in {PerfLogFile, ReportFile} => w[1] = 0

\* A run of several processes has ended with both files written.
C14_Witness ==
    /\ AllDone
    /\ size > 1
    /\ <<0, PerfLogFile, "log_mult">> \in writes
    /\ <<0, PerfLogFile, "log_inv">> \in writes
    /\ <<0, ReportFile, "analyze">> \in writes
    /\ perf_log # <<>>
    /\ report # <<>>

\* s is an initial part of t.
IsPrefix(s, t) == Len(s) <= Len(t) /\ SubSeq(t, 1, Len(s)) = s

\* The operations of a run, in the order of main.
Operations == <<"Matrix_Multiplication", "Matrix_Inversion">>

C15_Records ==
    /\ \A i, j \in DOMAIN perf_log :
          i < j => perf_log[i][1] = Operations[1] /\ perf_log[j][1] = Operations[2]
    /\ \A i \in DOMAIN perf_log :
          \/ perf_log[i][1] = Operations[1] /\ \A p \in Procs : MultiplyReturned(p)
          \/ perf_log[i][1] = Operations[2] /\ \A p \in Procs : InverseReturned(p)
    /\ Len(report) <= 1
    /\ report # <<>> => AllDone
    /\ AllDone /\ failed = {} => Len(perf_log) = 2 /\ Len(report) = 1

C15_AppendStep == IsPrefix(perf_log, perf_log') /\ IsPrefix(report, report')

\* C15: a run adds to the performance log one Matrix_Multiplication record and
\* then one Matrix_Inversion record, each only when every process has returned
\* from that operation, and one block to the bottleneck report; a run that
\* reaches MPI_Finalize with every file opened has added exactly these; and
\* no step changes or removes what the files already hold.
C15_OneRecordPerOperation == []C15_Records /\ [][C15_AppendStep]_vars

\* A run of several processes has ended with two records and one block.
C15_Witness ==
    /\ AllDone
    /\ size > 1
    /\ Len(perf_log) = 2
    /\ perf_log[1][1] = "Matrix_Multiplication"
    /\ perf_log[2][1] = "Matrix_Inversion"
    /\ Len(report) = 1

\* C16: the dimension field of every record of the performance log is the
\* dimension of the matrix its operation ran on: n for the multiplication,
\* inv_size for the inversion.
C16_RecordDimension ==
    \A i \in DOMAIN perf_log :
        /\ perf_log[i][1] = "Matrix_Multiplication" => perf_log[i][3] = n
        /\ perf_log[i][1] = "Matrix_Inversion" => perf_log[i][3] = inv_size

\* The partition files.
PartFiles == {PartFileName(PartFile, p) : p \in Procs}

\* Process p is past save_matrix_distributed.
Saved(p) == TimesTaken(p)

\* The rows a partition file holds.
RowsOf(f) ==
    {r \in 0 .. (n - 1) :
        parts[f].first <= r /\ r < parts[f].first + Len(parts[f].cells) \div n}

\* C17: a partition file is opened only by the rank it is named after, so by
\* one rank only; the file of a process holds the cells of its own C for
\* exactly the rows of the partition it computed in the multiplication; and
\* once every process has saved, every row of 0..n-1 is in exactly one file.
C17_PartitionFiles ==
    /\ \A w \in writes \cup failed :
          w[2] \in PartFiles => w[2] = PartFileName(PartFile, w[1])
    /\ \A v, w \in writes \cup failed :
          v[2] = w[2] /\ v[2] \in PartFiles => v[1] = w[1]
    /\ DOMAIN parts \subseteq PartFiles
    /\ \A p \in Procs :
          Saved(p) /\ <<p, PartFileName(PartFile, p), "log_mult">> \in writes =>
            /\ PartFileName(PartFile, p) \in DOMAIN parts
            /\ RowsOf(PartFileName(PartFile, p)) =
                  {r \in 0 .. (n - 1) : start_row[p] <= r /\ r < end_row[p]}
            /\ Len(parts[PartFileName(PartFile, p)].cells) =
                  (end_row[p] - start_row[p]) * n
            /\ \A k \in 1 .. Len(parts[PartFileName(PartFile, p)].cells) :
                  /\ parts[PartFileName(PartFile, p)].cells[k] # Uninit
                  /\ parts[PartFileName(PartFile, p)].cells[k] =
                        C[p][start_row[p] * n + k - 1]
    /\ (\A p \in Procs : Saved(p)) /\ failed = {} =>
          \A r \in 0 .. (n - 1) :
              Cardinality({f \in DOMAIN parts : r \in RowsOf(f)}) = 1

\* Two processes have saved the partitions of three rows: one row in the
\* file of rank 0, two in the file of rank 1.
C17_Witness ==
    /\ size = 2
    /\ n = 3
    /\ \A p \in Procs : Saved(p)
    /\ Cardinality(DOMAIN parts) = 2
    /\ RowsOf(PartFileName(PartFile, 0)) = {0}
    /\ RowsOf(PartFileName(PartFile, 1)) = {1, 2}

\* C18: every block of the bottleneck report has a load-imbalance value, and
\* the value is 0 when all processes report the same computation time.
C18_LoadImbalanceReported ==
    \A i \in DOMAIN report :
        /\ "load_imbalance" \in DOMAIN report[i]
        /\ (\A p, q \in Procs : mult_time[p] = mult_time[q]) =>
              report[i].load_imbalance = Zero

\* The opens that fail in the step.
FailedNow == failed' \ failed

\* What the step does to the position of every process when every open
\* succeeds.
AdvancesAsOnSuccess ==
    \/ \E p \in Procs :
          /\ pc[p] = "log_mult"
          /\ pc' = [pc EXCEPT ![p] = "barrier_save"]
    \/ \E p \in Procs :
          /\ pc[p] = "log_inv"
          /\ pc' = [pc EXCEPT ![p] = "analyze"]
    \/ /\ AllAt("analyze")
       /\ pc' = [p \in Procs |-> "done"]

C19_Step ==
    FailedNow # {} =>
        /\ \A w \in FailedNow :
              /\ w[2] = PerfLogFile => perf_log' = perf_log
              /\ w[2] = ReportFile => report' = report
              /\ w[2] \in PartFiles =>
                    /\ w[2] \in DOMAIN parts' <=> w[2] \in DOMAIN parts
                    /\ w[2] \in DOMAIN parts => parts'[w[2]] = parts[w[2]]
        /\ AdvancesAsOnSuccess
        /\ \A p \in Procs : pc'[p] # "aborted"
        /\ UNCHANGED <<A, B, C, A_small, A_inv, work, singular, chan, rounds>>

\* C19: in a step in which an open for writing fails, the file is left as it
\* was, every process goes on exactly as when the open succeeds (nobody
\* aborts, the barriers and reductions that follow are entered), and the
\* matrices in memory and the messages keep their values.
C19_FailedOpenIsSilent == [][C19_Step]_vars

\* A run of two processes has reached MPI_Finalize although the log, the
\* report and a partition file could not be opened.
C19_Witness ==
    /\ AllDone
    /\ size > 1
    /\ perf_log = <<>>
    /\ report = <<>>
    /\ \E w \in failed : w[2] = PerfLogFile
    /\ \E w \in failed : w[2] = ReportFile
    /\ \E w \in failed : w[2] \in PartFiles /\ w[2] \notin DOMAIN parts
    /\ \E w \in writes : w[2] \in PartFiles

\* ------------------------------------------------------------- determinism
\* The matrix the merge is to leave on the coordinator, as a function of the
\* inputs of the run alone: cell (i, j) is the sum over k in ascending order
\* computed from the A and B of the rank that owns row i.
Output(a, b, nn) ==
    [k \in 0 .. (nn * nn - 1) |->
        Dot(a[Owner(k \div nn, nn)], b[Owner(k \div nn, nn)],
            k \div nn, k % nn, nn)]

C21_IdentityTimesB ==
    MultiplyReturned(0) => C[0] = B[0]

\* The scenario of the claim, on three processes that do not share the four
\* rows evenly.
C21_Witness ==
    /\ MultiplyReturned(0)
    /\ n = 4
    /\ size = 3
    /\ A[0] = InitializeIdentity(4)
    /\ B[0] # A[0]
    /\ \A p \in Procs : B[p] = B[0]
    /\ C[0] = B[0]

\* ------------------------------------------------- the steps of one pass
\* Row i of matrix m of dimension inv_size.
Row(m, i) == [j \in 0 .. (inv_size - 1) |-> m[i * inv_size + j]]

\* The magnitude of the entry of row i in the pivot column, before the step.
Magnitude(i) == RAbs(Cell(before.work, i, col[0], inv_size))

\* C22: the row Select-Pivot returns for column col is one of col..n-1, no
\* entry of column col in rows col..n-1 is larger in absolute value than
\* its entry, and every row of col..n-1 above it has a strictly smaller one.
C22_PivotIsFirstMaximum ==
    pc[0] = "swap" =>
        /\ col[0] <= pivotRow
        /\ pivotRow < inv_size
        /\ \A i \in col[0] .. (inv_size - 1) : ~RGt(Magnitude(i), Magnitude(pivotRow))
        /\ \A i \in col[0] .. (pivotRow - 1) : RGt(Magnitude(pivotRow), Magnitude(i))

\* Two rows tie for the maximum with entries of opposite sign and the upper
\* one is returned.
C22_Witness ==
    /\ pc[0] = "swap"
    /\ \E i \in (pivotRow + 1) .. (inv_size - 1) :
          /\ Magnitude(i) = Magnitude(pivotRow)
          /\ Cell(before.work, i, col[0], inv_size) #
                Cell(before.work, pivotRow, col[0], inv_size)

C24_ScaleDividesPivotRow ==
    pc[0] = "eliminate" =>
        /\ pivotVal = Cell(before.work, col[0], col[0], inv_size)
        /\ \A m \in {"work", "A_inv"} :
              /\ \A j \in 0 .. (inv_size - 1) :
                    Cell(Matrices[m], col[0], j, inv_size) =
                        RDiv(Cell(before[m], col[0], j, inv_size), pivotVal)
              /\ \A i \in 0 .. (inv_size - 1) :
                    i # col[0] => Row(Matrices[m], i) = Row(before[m], i)
        /\ Cell(work[0], col[0], col[0], inv_size) = One

\* A row has been divided by a pivot other than 1, in the second column.
C24_Witness ==
    /\ pc[0] = "eliminate"
    /\ col[0] = 1
    /\ pivotVal \notin {One, Zero}
    /\ Row(work[0], col[0]) # Row(before.work, col[0])
    /\ Row(A_inv[0], col[0]) # Row(before.A_inv, col[0])

\* The rows Eliminate is to change on the process.
Eliminated == {i \in start_row[0] .. (end_row[0] - 1) : i # col[0]}

\* C25: after Eliminate, every row i of the partition other than col is, in
\* each matrix, the former row minus factor times the former row col, with
\* factor the former work[i][col]; work[i][col] is 0; the rows outside the
\* partition and row col are as they were.
C25_EliminateOwnRows ==
    pc[0] = "synchronize" =>
        /\ \A m \in {"work", "A_inv"} :
              \A i \in 0 .. (inv_size - 1) :
                  IF i \in Eliminated
                  THEN \A j \in 0 .. (inv_size - 1) :
                          Cell(Matrices[m], i, j, inv_size) =
                              RSub(Cell(before[m], i, j, inv_size),
                                   RMul(Cell(before.work, i, col[0], inv_size),
                                        Cell(before[m], col[0], j, inv_size)))
                  ELSE Row(Matrices[m], i) = Row(before[m], i)
        /\ \A i \in Eliminated : Cell(work[0], i, col[0], inv_size) = Zero

\* The last of two processes has cleared a nonzero entry of its row; the
\* row of the other process, outside its partition, has a nonzero entry left.
C25_Witness ==
    /\ pc[0] = "synchronize"
    /\ col[0] = 0
    /\ start_row[0] > 0
    /\ \E i \in Eliminated :
          /\ Cell(before.work, i, 0, inv_size) # Zero
          /\ Row(A_inv[0], i) # Row(before.A_inv, i)

\* ------------------------------------------------------------------ rounds
\* Process p is in matrix_inverse_mpi or has returned from it.
InverseEntered(p) == pc[p] \in {"column", "allgather"} \cup AfterInverseLabels

\* Process q has finished Eliminate for column c and entered the all-gathers.
Contributed(q, c) ==
    /\ InverseEntered(q)
    /\ col[q] > c \/ (col[q] = c /\ pc[q] = "allgather")

\* C26: as long as no process has met a singular pivot, a process is at or
\* past column c + 1 only when every process has finished Eliminate for
\* column c and entered the all-gathers; and a process that has returned has
\* taken part in exactly inv_size rounds.
C26_RoundsAreBarriers ==
    (\A p \in Procs : ~singular[p]) =>
        \A p \in Procs :
            /\ InverseEntered(p) =>
                  \A c \in 0 .. (col[p] - 1) : \A q \in Procs : Contributed(q, c)
            /\ InverseReturned(p) => rounds[p] = inv_size

\* ------------------------------------------------- threads of Eliminate
\* The loop of lines 164-173 executed by one thread: rows first .. er-1 in
\* ascending order.
RECURSIVE SequentialEliminate(_, _, _, _)
SequentialEliminate(m, c, first, er) ==
    IF first >= er THEN m
    ELSE SequentialEliminate(
            [work |-> EliminateRow(m.work, m.work, c, first, inv_size),
             A_inv |-> EliminateRow(m.A_inv, m.work, c, first, inv_size)],
            c, first + 1, er)

\* Two different iterations of the current loop touch the same element and
\* one of them writes it.
Conflict ==
    \E a, b \in acc :
        a[1] # b[1] /\ a[2] = "w" /\ a[3] = b[3] /\ a[4] = b[4]

\* C27: in the Eliminate loop every element written is an element of the
\* row of the iteration that writes it, so of one thread only; the pivot row
\* is read and never written; and when the loop has ended, in whatever
\* order its iterations ran, both matrices are what the loop executed by
\* one thread in ascending order leaves.
C27_EliminateIsRaceFree ==
    pc[0] \in {"eliminate_loop", "synchronize"} =>
        /\ \A a \in acc : a[2] = "w" => a[4] \in RowIndices(a[1], inv_size)
        /\ \A a \in acc : a[2] = "w" => a[4] \notin RowIndices(col[0], inv_size)
        /\ ~Conflict
        /\ pc[0] = "synchronize" =>
              Matrices = SequentialEliminate(before, col[0], start_row[0], end_row[0])

\* Two rows have been eliminated, both reading the pivot row.
C27_Witness ==
    /\ pc[0] = "synchronize"
    /\ Matrices # before
    /\ \E i, k \in Eliminated : i # k
    /\ \A i \in Eliminated :
          \E a \in acc :
              /\ a[1] = i /\ a[2] = "r" /\ a[3] = "work"
              /\ a[4] \in RowIndices(col[0], inv_size)

\* --------------------------------------------- threads of the other loops
\* C28: in the loop of initialize_matrix no location, the state of the
\* random generator included, is written by one iteration and read or
\* written by another.
C28_InitializeSharesNothing ==
    pc[0] \in {"init_loop", "initialized"} => ~Conflict

\* The Scale and Eliminate loops do keep their iterations apart.
ScaleAndEliminateShareNothing ==
    pc[0] \in {"scale_loop", "eliminate_loop", "synchronize"} => ~Conflict

\* The matrix the loop leaves is the one a single thread would have left.
InitializedAsByOneThread ==
    pc[0] = "initialized" =>
        \E seed \in 0 .. (MaxTime + MaxProcs - 1) :
            A_small[0] = InitializeMatrix(Srand(seed), inv_size, inv_size)

\* ------------------------------------------------------- order of arrival
\* The step is the coordinator's receive for rank p.
ReceiveStep(p) == pc[0] = "gather" /\ next_p = p /\ next_p' = p + 1

\* Cell k lies in a row of the partition rank p computed.
InPartitionOf(p, k) == start_row[p] <= k \div n /\ k \div n < end_row[p]

C29_Step ==
    \A p \in Procs \ {0} :
        ReceiveStep(p) =>
            \A k \in 0 .. (n * n - 1) :
                IF InPartitionOf(p, k)
                THEN C[0][k] = Uninit /\ C'[0][k] = C[p][k]
                ELSE C'[0][k] = C[0][k]

\* Every sender's rows are in the coordinator's C as the sender computed them.
Merged == \A p \in Procs \ {0} : \A k \in 0 .. (n * n - 1) :
              InPartitionOf(p, k) => C[0][k] = C[p][k]

\* C29: the receive for rank p stores p's rows, all of them and as p
\* computed them, in rows of the coordinator's C nothing had been stored in,
\* and leaves every other row of that C as it was; and in whatever order
\* the senders' messages arrived, the coordinator leaves matrix_multiply_mpi
\* with every sender's rows and its own.
C29_ArrivalOrderIsIrrelevant ==
    /\ [][C29_Step]_vars
    /\ [](MultiplyReturned(0) =>
            /\ Merged
            /\ \A k \in 0 .. (n * n - 1) :
                  InPartitionOf(0, k) => C[0][k] = Dot(A[0], B[0], k \div n, k % n, n)
            /\ Len(arrived) = size - 1
            /\ \A p \in Procs \ {0} : \E i \in DOMAIN arrived : arrived[i] = p)

\* The message of rank 2 arrived before the message of rank 1, and the
\* coordinator has merged both.
C29_Witness ==
    /\ MultiplyReturned(0)
    /\ size = 3 /\ n = 3
    /\ arrived = <<2, 1>>
    /\ Merged
    /\ C[1] # C[2]

\* ------------------------------------------------------------ the report
\* The sum of f over the ranks.
Total(f) ==
    LET S[k \in 0 .. size] == IF k = 0 THEN 0 ELSE S[k - 1] + f[k - 1]
    IN  S[size]

\* Some rank is in analyze_communication.
InAnalyze == \E p \in Procs : pc[p] = "analyze"

C30_Step ==
    report' # report =>
        /\ AllAt("analyze")
        /\ Len(report') = Len(report) + 1
        /\ report'[Len(report')].processors = size
        /\ report'[Len(report')].avg_comp = Rat(Total(mult_time), size)
        /\ report'[Len(report')].avg_comm = Rat(Total(mult_comm), size)

\* C30: the block of the report is written when every rank is in
\* analyze_communication, its averages are the sum over all ranks of the
\* rank's own mult_time, and of its own mult_comm, divided by the process
\* count, and once a rank is in analyze_communication every rank passes it
\* and the run ends.
C30_ReductionsComplete ==
    /\ [][C30_Step]_vars
    /\ InAnalyze ~> AllDone

\* A run of two processes whose times differ has ended and its block is in
\* the report.
C30_Witness ==
    /\ AllDone
    /\ size = 2
    /\ mult_time[0] # mult_time[1]
    /\ mult_comm[0] # mult_comm[1]
    /\ Len(report) = 1
    /\ report[1].avg_comp = Rat(mult_time[0] + mult_time[1], 2)

\* ----------------------------------------------------- layout of the files
\* Row i of the n x n matrix m, as a sequence of n values.
RowSeq(m, i) == [j \in 1 .. n |-> m[i * n + j - 1]]

\* Record k (from 0) of a file of records of n values.
Record(cells, k) == SubSeq(cells, k * n + 1, (k + 1) * n)

\* The step writes the partition file of process p.
SaveStep(p) ==
    /\ pc[p] = "log_mult"
    /\ pc'[p] # "log_mult"
    /\ PartFileName(PartFile, p) \in DOMAIN parts'

C31_Step ==
    \A p \in Procs :
        SaveStep(p) =>
            \E cells \in {parts'[PartFileName(PartFile, p)].cells} :
                /\ Len(cells) = (end_row[p] - start_row[p]) * n
                /\ \A k \in 0 .. (end_row[p] - start_row[p] - 1) :
                      Record(cells, k) = RowSeq(C[p], start_row[p] + k)

\* C31: the save of process p leaves in p's partition file end_row - start_row
\* records of n values and nothing else, record k being row start_row + k of
\* the C process p holds when it saves.
C31_FileIsRowsInOrder == [][C31_Step]_vars

\* The last of two processes has saved two rows that differ, in their
\* order, while it holds nothing in the rows of the others.
C31_Witness ==
    /\ size = 2
    /\ n = 3
    /\ PartFileName(PartFile, 1) \in DOMAIN parts
    /\ \E cells \in {parts[PartFileName(PartFile, 1)].cells} :
          /\ Len(cells) = 2 * n
          /\ Record(cells, 0) = RowSeq(C[1], 1)
          /\ Record(cells, 1) = RowSeq(C[1], 2)
          /\ Record(cells, 0) # Record(cells, 1)
    /\ RowSeq(C[1], 0) = [j \in 1 .. n |-> Uninit]

\* ---------------------------------------------------------------- lockstep
\* Process p is at a pivot-column boundary of matrix_inverse_mpi: at the top
\* of the column loop, or returned from the function after its last column.
AtColumnBoundary(p) ==
    \/ pc[p] = "column"
    \/ InverseReturned(p) /\ ~singular[p]

\* C32: at every pivot-column boundary, on every process, A_inv x A for the
\* A the process was called with equals the working matrix.
C32_Lockstep ==
    \A p \in Procs :
        AtColumnBoundary(p) =>
            Product(A_inv[p], A_small[p], inv_size) = work[p]

\* --------------------------------------------------------------- agreement
\* Every process that has entered matrix_inverse_mpi was called with the
\* same matrix, and the process count divides its dimension.
SameMatrixDivided ==
    /\ inv_size > 0
    /\ inv_size % size = 0
    /\ \A p, q \in Procs :
          InverseEntered(p) /\ InverseEntered(q) => A_small[p] = A_small[q]

\* C33: when all processes are called with the same matrix and the process
\* count divides n, any two processes at the top of the same pivot column
\* hold the same work and A_inv and select the same pivot row, no process
\* returns as singular while another waits in the all-gather of that column,
\* and any two processes that have returned took the same decision at the
\* same column.
C33_ProcessesAgree ==
    SameMatrixDivided =>
        /\ \A p, q \in Procs :
              pc[p] = "column" /\ pc[q] = "column" /\ col[p] = col[q] =>
                /\ work[p] = work[q]
                /\ A_inv[p] = A_inv[q]
                /\ SelectPivot(work[p], col[p], inv_size)
                      = SelectPivot(work[q], col[q], inv_size)
        /\ \A p, q \in Procs :
              ~(singular[p] /\ pc[q] = "allgather" /\ ~singular[q])
        /\ \A p, q \in Procs :
              InverseReturned(p) /\ InverseReturned(q) =>
                singular[p] = singular[q] /\ col[p] = col[q]

\* Two processes are at the top of the second column of a matrix of two
\* rows, each holding the row the other eliminated in the first.
C33_Witness ==
    /\ size = 2
    /\ inv_size = 2
    /\ SameMatrixDivided
    /\ \A p \in Procs : pc[p] = "column" /\ col[p] = 1
    /\ work[0] = work[1]
    /\ work[0] # A_small[0]
    /\ Cell(work[0], 1, 0, inv_size) = Zero

\* ------------------------------------------------------ slices exchanged
\* The rows of rank p's block in the all-gathers of lines 176-179, which
\* are posted with recvcount elements per rank.
SliceOf(p, recvcount) ==
    {i \in 0 .. (inv_size - 1) :
        p * recvcount <= i * inv_size /\ (i + 1) * inv_size <= (p + 1) * recvcount}

\* The rows rank p eliminates, lines 161-164.
EliminatedBy(p) ==
    {i \in 0 .. (inv_size - 1) :
        StartRow(p, size, inv_size) <= i /\ i < EndRow(p, size, inv_size)}

\* C34: when the processes are in the all-gathers of a column, the rows of
\* every rank's block are the rows that rank eliminated, and every row is in
\* the block of exactly one rank.
C34_SliceIsPartition ==
    AllAt("allgather") =>
        /\ \A p \in Procs :
              SliceOf(p, GatherCount(inv_size, size)) = EliminatedBy(p)
        /\ \A i \in 0 .. (inv_size - 1) :
              Cardinality({p \in Procs :
                             i \in SliceOf(p, GatherCount(inv_size, size))}) = 1

\* ------------------------------------------------------ reduced columns
\* Columns 0 .. last of m are those of the identity.
IdentityColumns(m, last, nn) ==
    \A i \in 0 .. (nn - 1) : \A c \in 0 .. last :
        Cell(m, i, c, nn) = IF i = c THEN One ELSE Zero

\* C35: on a process that has flagged no singularity and has processed and
\* synchronized the columns before col, these columns of work are those of
\* the identity; after the last column work is the identity.
C35_ColumnsReduced ==
    \A p \in Procs :
        AtColumnBoundary(p) =>
            /\ IdentityColumns(work[p], col[p] - 1, inv_size)
            /\ InverseReturned(p) => work[p] = InitializeIdentity(inv_size)

\* -------------------------------------------------------------- the inputs
C36_Step ==
    \A p \in Procs :
        /\ pc[p] # "start" => A'[p] = A[p] /\ B'[p] = B[p]
        /\ InverseEntered(p) => A_small'[p] = A_small[p]

\* C36: once A and B are initialized no step of a process, in
\* matrix_multiply_mpi or elsewhere, changes its A or B, and from the call of
\* matrix_inverse_mpi on no step changes the matrix it was called with,
\* whether the call ends normally or with the singular return.
C36_InputsUntouched == [][C36_Step]_vars

\* After a multiplication that has filled C, a process has returned from
\* the inversion as singular at a later column than the first, with a work
\* that is no longer the matrix it was called with.
C36_Witness ==
    /\ \E p \in Procs :
          /\ singular[p] /\ InverseReturned(p)
          /\ col[p] > 0
          /\ work[p] # A_small[p]
          /\ \A k \in DOMAIN A_small[p] : A_small[p][k] # Uninit
    /\ MultiplyReturned(0)
    /\ \A k \in DOMAIN C[0] : C[0][k] # Uninit

\* -------------------------------------------------------------- round trip
\* The step is the load of process p, and the file was (not) opened.
LoadStep(p, opened) ==
    /\ pc[p] = "load"
    /\ pc'[p] = "loaded"
    /\ opened <=> <<p, PartFileName(PartFile, p), "load">> \in writes'

\* The save of process p succeeded.
SaveSucceeded(p) == <<p, PartFileName(PartFile, p), "save">> \in writes

C37_Step ==
    \A p \in Procs :
        /\ LoadStep(p, TRUE) /\ SaveSucceeded(p) =>
              \A k \in 0 .. (n * n - 1) :
                  B'[p][k] = IF StartRow(p, size, n) <= k \div n
                                /\ k \div n < EndRow(p, size, n)
                             THEN C[p][k]
                             ELSE B[p][k]
        /\ LoadStep(p, FALSE) => B'[p] = B[p]

\* C37: a load that follows a successful save with the same n, file name,
\* rank and size makes the rows of the rank's partition equal to the rows
\* saved and leaves the other rows as they were; a load that cannot open
\* the file changes nothing.
C37_RoundTrip == [][C37_Step]_vars

\* The last of two ranks has saved and loaded rows 1 and 2 of a matrix of
\* three rows, and row 0 of the matrix loaded into is not the row 0 of the
\* matrix saved.
C37_Witness ==
    /\ size = 2
    /\ n = 3
    /\ pc[1] = "loaded"
    /\ SaveSucceeded(1)
    /\ <<1, PartFileName(PartFile, 1), "load">> \in writes
    /\ RowSeq(B[1], 1) = RowSeq(C[1], 1)
    /\ RowSeq(B[1], 2) = RowSeq(C[1], 2)
    /\ RowSeq(B[1], 0) # RowSeq(C[1], 0)
====
